---- MODULE Spec2Model ----
(***************************************************************************)
(* Model of the libsllp client engine (src/src/client.c): one client       *)
(* session, its four entity catalogs, the command exchange over the        *)
(* injected transport, the session initialization sequence and the public  *)
(* entity operations.                                                      *)
(*                                                                         *)
(* The transport and the server behind it are the environment: every       *)
(* exchange draws its outcome (send failure, receive failure, a received   *)
(* buffer of some size and content) from a bounded set.  Multi-exchange    *)
(* handlers (sllp_client_init and the catalog refreshes) are stepped one   *)
(* exchange at a time through pc; while pc is not "idle" only the running  *)
(* handler's next step is enabled, as the library is single-threaded.      *)
(***************************************************************************)
EXTENDS Integers, Sequences, FiniteSets, TLC

VARIABLES
    initialized,     \* struct sllp_client.initialized
    server_version,  \* struct sllp_client.server_version (major, minor, revision)
    vars,            \* struct sllp_client.vars   (entries 0..count-1 of the list)
    groups,          \* struct sllp_client.groups
    curves,          \* struct sllp_client.curves
    funcs,           \* struct sllp_client.funcs
    pc,              \* position of the running public call; "returned" when it
                     \* has returned to the caller, "idle" before the next call
    frame,           \* locals of the running call that outlive one exchange
    call,            \* the public call being made / last made, with its arguments
    ret,             \* value returned by the last completed public call
    wire,            \* transport calls (send / recv) made during `call`, in order
    last,            \* what the transport did in the latest exchange
    out,             \* caller-side buffers written by `call`
    stale,           \* TRUE while the Group catalog predates the Variable catalog
    scenario         \* which part of the device the environment populates richly

vars_all == <<initialized, server_version, vars, groups, curves, funcs,
              pc, frame, call, ret, wire, last, out, stale, scenario>>

----------------------------------------------------------------------------
(* Bounds of the model *)

MaxVars   == 2      \* most Variables the server reports
MaxGroups == 2      \* most Groups the server reports
MaxCurves == 2      \* most Curves the server reports
MaxFuncs  == 1      \* most Functions the server reports

----------------------------------------------------------------------------
(* Protocol constants (sllp.h / sllp_priv.h, not part of src/) *)

SLLP_HEADER_SIZE        == 3
SLLP_VAR_MAX_SIZE       == 128
SLLP_CURVE_MAX_BLOCKS   == 65536
SLLP_CURVE_LIST_INFO    == 5
SLLP_CURVE_BLOCK_INFO   == 3
SLLP_CURVE_CSUM_SIZE    == 16
SLLP_MAX_PAYLOAD        == 65535
BIN_OP_COUNT            == 6
WRITABLE_MASK           == 128
SIZE_MASK               == 127

UINT16 == 65536

SLLP_SUCCESS                == "SLLP_SUCCESS"
SLLP_ERR_PARAM_INVALID      == "SLLP_ERR_PARAM_INVALID"
SLLP_ERR_PARAM_OUT_OF_RANGE == "SLLP_ERR_PARAM_OUT_OF_RANGE"
SLLP_ERR_COMM               == "SLLP_ERR_COMM"

\* x & WRITABLE_MASK, as the truth value the code stores
Writable(b) == (b \div WRITABLE_MASK) % 2 = 1
\* x & SIZE_MASK
SizeField(b) == b % (SIZE_MASK + 1)

\* A handle that points at nothing
NULL == -1


----------------------------------------------------------------------------
(* Messages and the command exchange *)

\* The indeterminate content of storage the code reads before writing it
\* (recv_buf, response on the stack): any of these bytes.
Garbage == {0, 1}

\* struct sllp_message as a request: code, payload_size (uint16_t) and the
\* payload bytes the code stored (the rest of the array is zero-initialized).
Request(code, payload_size, payload) ==
    [code |-> code, payload_size |-> payload_size % UINT16, payload |-> payload]

\* request->payload[i] (0-based)
ReqByte(request, i) ==
    IF i < Len(request.payload) THEN request.payload[i + 1] ELSE 0

\* send_buf as handed to client->send: the code, the two length bytes
\* (big-endian) and payload_size bytes of payload.
SendBuf(request) ==
    [size |-> SLLP_HEADER_SIZE + request.payload_size,
     code |-> request.code,
     body |-> <<request.payload_size \div 256, request.payload_size % 256>>
              \o [i \in 1..request.payload_size |-> ReqByte(request, i - 1)]]

\* What one exchange does at the transport: whether send succeeds, whether
\* recv succeeds, the buffer recv fills (size bytes: code, then body) and the
\* value of every byte the code reads that recv did not write.
SendFail == [send |-> FALSE, recv |-> FALSE, size |-> 0, code |-> "none",
             body |-> <<>>, g |-> 0]
RecvFail == [send |-> TRUE, recv |-> FALSE, size |-> 0, code |-> "none",
             body |-> <<>>, g |-> 0]
\* a received buffer holding a whole header that declares `len` payload
\* bytes, followed by the payload bytes actually delivered
Reply(code, len, payload, g) ==
    [send |-> TRUE, recv |-> TRUE, size |-> SLLP_HEADER_SIZE + Len(payload),
     code |-> code, body |-> <<len \div 256, len % 256>> \o payload, g |-> g]
\* a well-formed message
Msg(code, payload) == Reply(code, Len(payload), payload, 0)
\* received buffers shorter than the header
Short0    == [send |-> TRUE, recv |-> TRUE, size |-> 0, code |-> "none",
              body |-> <<>>, g |-> 0]
Short1(code) == [send |-> TRUE, recv |-> TRUE, size |-> 1, code |-> code,
                 body |-> <<>>, g |-> 0]
Short2(code, hi, g) == [send |-> TRUE, recv |-> TRUE, size |-> 2, code |-> code,
                        body |-> <<hi>>, g |-> g]

\* no exchange made
NoExchange == [send |-> FALSE, recv |-> FALSE, size |-> 0, code |-> "no exchange",
               body |-> <<>>, g |-> 0]

NoResponse == [code |-> "none", payload_size |-> 0, bytes |-> <<>>, g |-> 0]

\* recv_buf.data[k] (0-based, k >= 1) as the code reads it
RecvByte(o, k) == IF k < o.size THEN o.body[k] ELSE o.g

\* The minimum received size command() accepts
MinRecvSize == 2

\* response as command() fills it from recv_buf
Response(o) ==
    [code         |-> o.code,
     payload_size |-> (RecvByte(o, 1) * 256 + RecvByte(o, 2)) % UINT16,
     bytes        |-> IF o.size > SLLP_HEADER_SIZE
                      THEN SubSeq(o.body, SLLP_HEADER_SIZE, o.size - 1)
                      ELSE <<>>,
     g            |-> o.g]

\* response.payload[i] (0-based)
RespByte(response, i) ==
    IF i < Len(response.bytes) THEN response.bytes[i + 1] ELSE response.g

\* the record of one transport call: a send with the buffer handed over, or
\* a recv
SendEvent(request, o) ==
    LET b == SendBuf(request) IN
    [t |-> "send", ok |-> o.send, size |-> b.size, code |-> b.code,
     body |-> b.body]

RecvEvent(o) ==
    [t |-> "recv", ok |-> o.recv, size |-> 0, code |-> "none", body |-> <<>>]

\* command() calling recv whatever send returned
command_recv_after_failed_send(request, o) ==
    IF ~o.recv
    THEN [err |-> SLLP_ERR_COMM, response |-> NoResponse,
          events |-> <<SendEvent(request, o), RecvEvent(o)>>]
    ELSE IF o.size < MinRecvSize
    THEN [err |-> SLLP_ERR_COMM, response |-> NoResponse,
          events |-> <<SendEvent(request, o), RecvEvent(o)>>]
    ELSE [err |-> SLLP_SUCCESS, response |-> Response(o),
          events |-> <<SendEvent(request, o), RecvEvent(o)>>]

\* command(): one exchange.  err, the decoded response, and the transport
\* calls made.
command(request, o) ==
    IF ~o.send
    THEN [err |-> SLLP_ERR_COMM, response |-> NoResponse,
          events |-> <<SendEvent(request, o)>>]
    ELSE IF ~o.recv
    THEN [err |-> SLLP_ERR_COMM, response |-> NoResponse,
          events |-> <<SendEvent(request, o), RecvEvent(o)>>]
    ELSE IF o.size < MinRecvSize
    THEN [err |-> SLLP_ERR_COMM, response |-> NoResponse,
          events |-> <<SendEvent(request, o), RecvEvent(o)>>]
    ELSE [err |-> SLLP_SUCCESS, response |-> Response(o),
          events |-> <<SendEvent(request, o), RecvEvent(o)>>]


----------------------------------------------------------------------------
(* Catalog entries and their decoding *)

\* An entity handle held by a caller or by a Group is a pointer.  A pointer
\* into a catalog's list array is the index of the slot it points to; NULL
\* and a record outside the array ("foreign") are the other handles.

\* vars.list[i] for any slot of the array: the slots past count are zero
\* since the last memset of the list.
ZeroVar == [id |-> 0, writable |-> FALSE, size |-> 0]
VarAt(i) == IF i < Len(vars) THEN vars[i + 1] ELSE ZeroVar

\* vars_list_contains and its siblings (LIST_CONTAINS): the handle is the
\* address of one of the first count slots.
list_contains(list, item) ==
    \E i \in 0..(Len(list) - 1) : item = i

\* get_version without the special case for servers that predate the
\* version command
DecodeVersion_no_fallback(response) ==
    <<RespByte(response, 0), RespByte(response, 1), RespByte(response, 2)>>

\* get_version, the version the response yields
DecodeVersion(response) ==
    IF response.code = "CMD_ERR_OP_NOT_SUPPORTED"
    THEN <<1, 0, 0>>
    ELSE <<RespByte(response, 0), RespByte(response, 1), RespByte(response, 2)>>

\* update_vars_list storing the size field as it is on the wire
DecodeVar_no_sentinel(i, b) ==
    [id |-> i, writable |-> Writable(b), size |-> SizeField(b)]

\* update_vars_list, the catalog built from a CMD_VAR_LIST response
DecodeVar(i, b) ==
    [id       |-> i,
     writable |-> Writable(b),
     size     |-> IF SizeField(b) = 0 THEN SLLP_VAR_MAX_SIZE ELSE SizeField(b)]

\* update_vars_list with a loop that stops one entry short
DecodeVars_last_dropped(response) ==
    [k \in 1..(response.payload_size - 1) |->
        DecodeVar(k - 1, RespByte(response, k - 1))]

DecodeVars(response) ==
    [k \in 1..response.payload_size |-> DecodeVar(k - 1, RespByte(response, k - 1))]

\* update_groups_list, the list after memset and count = payload_size
ZeroGroup == [id |-> 0, writable |-> FALSE, size |-> 0,
              vars |-> [count |-> 0, list |-> <<>>]]
ZeroGroups(response) == [k \in 1..response.payload_size |-> ZeroGroup]

RECURSIVE SumSizes(_)
SumSizes(ids) ==
    IF ids = <<>> THEN 0
    ELSE VarAt(ids[1]).size + SumSizes(Tail(ids))

\* update_groups_list filling the member list without accumulating the size
DecodeGroup_size_not_accumulated(i, list_response, grp_response) ==
    LET ids == [j \in 1..grp_response.payload_size |->
                   RespByte(grp_response, j - 1)]
    IN [id       |-> i,
        writable |-> Writable(RespByte(list_response, i)),
        size     |-> 0,
        vars     |-> [count |-> SizeField(RespByte(list_response, i)),
                      list  |-> ids]]

\* update_groups_list, Group i built from the list response and its
\* CMD_GROUP response: every payload byte is resolved to &vars.list[byte]
DecodeGroup(i, list_response, grp_response) ==
    LET ids == [j \in 1..grp_response.payload_size |->
                   RespByte(grp_response, j - 1)]
    IN [id       |-> i,
        writable |-> Writable(RespByte(list_response, i)),
        size     |-> SumSizes(ids),
        vars     |-> [count |-> SizeField(RespByte(list_response, i)),
                      list  |-> ids]]

\* update_curves_list
ZeroCsum == [k \in 1..SLLP_CURVE_CSUM_SIZE |-> 0]
ZeroCurve == [id |-> 0, writable |-> FALSE, block_size |-> 0, nblocks |-> 0,
              checksum |-> ZeroCsum]
ZeroCurves(response) ==
    [k \in 1..(response.payload_size \div SLLP_CURVE_LIST_INFO) |-> ZeroCurve]

CurveNblocks(hi, lo) ==
    IF hi * 256 + lo = 0 THEN SLLP_CURVE_MAX_BLOCKS ELSE hi * 256 + lo

\* update_curves_list leaving the id of each Curve as zeroed
DecodeCurve_id_not_set(i, response) ==
    LET base == i * SLLP_CURVE_LIST_INFO IN
    [id         |-> 0,
     writable   |-> RespByte(response, base) # 0,
     block_size |-> RespByte(response, base + 1) * 256
                    + RespByte(response, base + 2),
     nblocks    |-> CurveNblocks(RespByte(response, base + 3),
                                 RespByte(response, base + 4)),
     checksum   |-> ZeroCsum]

\* Curve i without its checksum, from the list response
DecodeCurve(i, response) ==
    LET base == i * SLLP_CURVE_LIST_INFO IN
    [id         |-> i,
     writable   |-> RespByte(response, base) # 0,
     block_size |-> RespByte(response, base + 1) * 256
                    + RespByte(response, base + 2),
     nblocks    |-> CurveNblocks(RespByte(response, base + 3),
                                 RespByte(response, base + 4)),
     checksum   |-> ZeroCsum]

DecodeCsum(response) ==
    [k \in 1..SLLP_CURVE_CSUM_SIZE |-> RespByte(response, k - 1)]

\* update_funcs_list
DecodeFunc(i, b) ==
    [id |-> i, input_size |-> (b \div 16) % 16, output_size |-> b % 16]

DecodeFuncs(response) ==
    [k \in 1..response.payload_size |-> DecodeFunc(k - 1, RespByte(response, k - 1))]


----------------------------------------------------------------------------
(* The environment: what the transport may do in each exchange *)

\* Each behaviour explores one part of the device in depth: the exchanges
\* about that part draw from every kind of outcome and from several payloads.
\* In scenario "session" every exchange may fail, answer with an unexpected
\* code or give its usual answer; elsewhere the exchanges about the other
\* parts give their usual answer.
Scenarios == {"session", "variables", "curves", "functions"}

Cycle(p, n) == [k \in 1..n |-> p[((k - 1) % Len(p)) + 1]]

\* transport failures and received buffers that are no whole message
Faults(code) ==
    {SendFail, RecvFail, Short1(code)}
    \cup {Short2(code, 0, g) : g \in Garbage}

\* a response with a code the caller does not expect
Unexpected == {Msg("CMD_ERR_OP_NOT_SUPPORTED", <<>>)}

\* the outcomes of an exchange that expects `code`
Outcomes(focus, code, payloads, usual) ==
    IF scenario = focus
    THEN Faults(code) \cup Unexpected \cup {Msg(code, p) : p \in payloads}
    ELSE IF scenario = "session"
    THEN {SendFail, RecvFail} \cup Unexpected \cup {Msg(code, usual)}
    ELSE {Msg(code, usual)}

VersionOutcomes ==
    IF scenario = "session"
    THEN {SendFail, RecvFail, Short0, Short1("CMD_VERSION")}
         \cup {Msg("CMD_VERSION", <<2, 0, 1>>), Msg("CMD_OK", <<2, 0, 1>>),
               Msg("CMD_ERR_OP_NOT_SUPPORTED", <<>>),
               Msg("CMD_ERR_OP_NOT_SUPPORTED", <<2, 0, 1>>)}
         \cup {Short2("CMD_VERSION", 0, g) : g \in Garbage}
    ELSE {Msg("CMD_VERSION", <<2, 0, 1>>)}

\* 0x84: writable, size 4; 0x01: read-only, size 1; 0x00: read-only, size
\* field 0
VarListOutcomes ==
    Outcomes("variables", "CMD_VAR_LIST",
             {Cycle(p, n) : p \in {<<132, 1>>, <<0, 132>>}, n \in 0..MaxVars},
             <<132, 1>>)

\* 0x81: writable, one member; 0x02: read-only, two members
GroupListOutcomes ==
    Outcomes("variables", "CMD_GROUP_LIST",
             {Cycle(<<129, 2>>, n) : n \in 0..MaxGroups},
             <<129>>)

GroupOutcomes ==
    Outcomes("variables", "CMD_GROUP", {<<0>>, <<1>>, <<0, 1>>}, <<0>>)

\* writable, block_size (2 bytes), nblocks (2 bytes)
CurveRecords ==
    {<<1, 0, 2, 0, 1>>, <<0, 0, 2, 0, 0>>, <<1, 255, 255, 0, 2>>}

RECURSIVE Flatten(_)
Flatten(ss) == IF ss = <<>> THEN <<>> ELSE ss[1] \o Flatten(Tail(ss))

CurveListOutcomes ==
    Outcomes("curves", "CMD_CURVE_LIST",
             {Flatten(recs) :
                recs \in UNION {[1..n -> CurveRecords] : n \in 0..MaxCurves}},
             <<1, 0, 2, 0, 1>>)

CsumOutcomes ==
    Outcomes("curves", "CMD_CURVE_CSUM",
             {[k \in 1..SLLP_CURVE_CSUM_SIZE |-> 7]},
             [k \in 1..SLLP_CURVE_CSUM_SIZE |-> 7])

\* 0x12: 1 input byte, 2 output bytes; 0x00: none; 0x20: 2 input bytes
FuncListOutcomes ==
    Outcomes("functions", "CMD_FUNC_LIST",
             UNION {[1..n -> {18, 0, 32}] : n \in 0..MaxFuncs},
             <<18>>)

----------------------------------------------------------------------------
(* Session construction and initialization *)

NoCall  == [op |-> "none"]
NoFrame == [op |-> "none", i |-> 0, list |-> NoResponse]
NoOut   == [buf |-> <<>>, buf_written |-> FALSE,
            len |-> 0, len_written |-> FALSE,
            error |-> 0, error_written |-> FALSE]

\* sllp_client_new: the four lists zeroed, initialized false.  The version
\* is not set before the first get_version; no operation reads it.
Init ==
    /\ initialized = FALSE
    /\ server_version = <<0, 0, 0>>
    /\ vars = <<>>
    /\ groups = <<>>
    /\ curves = <<>>
    /\ funcs = <<>>
    /\ pc = "idle"
    /\ frame = NoFrame
    /\ call = NoCall
    /\ ret = "none"
    /\ wire = <<>>
    /\ last = NoExchange
    /\ out = NoOut
    /\ stale = FALSE
    /\ scenario \in Scenarios

\* the public call returns e
Return(e) ==
    /\ pc' = "returned"
    /\ ret' = e
    /\ frame' = NoFrame

\* the running call goes on to its next exchange
Goto(label, f) ==
    /\ pc' = label
    /\ ret' = "none"
    /\ frame' = f

\* sllp_client_init after update_funcs_list returned SLLP_SUCCESS
InitDone ==
    /\ initialized' = TRUE
    /\ Return(SLLP_SUCCESS)

\* sllp_client_init up to and including get_version
sllp_client_init ==
    /\ pc = "idle"
    /\ \E o \in VersionOutcomes :
         LET r == command(Request("CMD_QUERY_VERSION", 0, <<>>), o) IN
         /\ call' = [op |-> "sllp_client_init"]
         /\ wire' = r.events
         /\ last' = o
         /\ out' = NoOut
         /\ IF r.err # SLLP_SUCCESS
            THEN /\ Return(SLLP_ERR_COMM)
                 /\ UNCHANGED server_version
            ELSE /\ server_version' = DecodeVersion(r.response)
                 /\ Goto("update_vars_list", [NoFrame EXCEPT !.op = "init"])
    /\ UNCHANGED <<initialized, vars, groups, curves, funcs, stale, scenario>>

\* update_vars_list (called by sllp_client_init only)
update_vars_list ==
    /\ pc = "update_vars_list"
    /\ \E o \in VarListOutcomes :
         LET r == command(Request("CMD_VAR_QUERY_LIST", 0, <<>>), o) IN
         /\ wire' = wire \o r.events
         /\ last' = o
         /\ IF r.err # SLLP_SUCCESS \/ r.response.code # "CMD_VAR_LIST"
            THEN /\ Return(SLLP_ERR_COMM)
                 /\ UNCHANGED <<vars, stale>>
            ELSE /\ vars' = DecodeVars(r.response)
                 /\ stale' = TRUE
                 /\ Goto("update_groups_list", frame)
    /\ UNCHANGED <<initialized, server_version, groups, curves, funcs,
                   call, out, scenario>>

\* sllp_client_init going on to the Curves after a failed Groups refresh
GroupsRefreshed_error_ignored(err) ==
    IF frame.op = "init"
    THEN Goto("update_curves_list", [NoFrame EXCEPT !.op = "init"])
    ELSE Return(SLLP_SUCCESS)

\* what the caller of update_groups_list does with its result
GroupsRefreshed(err) ==
    IF frame.op = "init"
    THEN IF err # SLLP_SUCCESS
         THEN Return(err)
         ELSE Goto("update_curves_list", [NoFrame EXCEPT !.op = "init"])
    ELSE Return(SLLP_SUCCESS)

\* update_groups_list up to the start of its loop
update_groups_list ==
    /\ pc = "update_groups_list"
    /\ \E o \in GroupListOutcomes :
         LET r == command(Request("CMD_GROUP_QUERY_LIST", 0, <<>>), o) IN
         /\ wire' = wire \o r.events
         /\ last' = o
         /\ IF r.err # SLLP_SUCCESS \/ r.response.code # "CMD_GROUP_LIST"
            THEN /\ GroupsRefreshed(SLLP_ERR_COMM)
                 /\ UNCHANGED <<groups, stale>>
            ELSE /\ groups' = ZeroGroups(r.response)
                 /\ stale' = FALSE
                 /\ IF r.response.payload_size = 0
                    THEN GroupsRefreshed(SLLP_SUCCESS)
                    ELSE Goto("update_groups_list_loop",
                              [frame EXCEPT !.i = 0, !.list = r.response])
    /\ UNCHANGED <<initialized, server_version, vars, curves, funcs,
                   call, out, scenario>>

\* one iteration of the loop of update_groups_list
update_groups_list_loop ==
    /\ pc = "update_groups_list_loop"
    /\ \E o \in GroupOutcomes :
         LET r == command(Request("CMD_GROUP_QUERY", 1, <<frame.i>>), o) IN
         /\ wire' = wire \o r.events
         /\ last' = o
         /\ IF r.err # SLLP_SUCCESS \/ r.response.code # "CMD_GROUP"
            THEN /\ groups' = <<>>
                 /\ GroupsRefreshed(SLLP_ERR_COMM)
            ELSE /\ groups' = [groups EXCEPT ![frame.i + 1] =
                                  DecodeGroup(frame.i, frame.list, r.response)]
                 /\ IF frame.i + 1 < Len(groups)
                    THEN Goto("update_groups_list_loop",
                              [frame EXCEPT !.i = frame.i + 1])
                    ELSE GroupsRefreshed(SLLP_SUCCESS)
    /\ UNCHANGED <<initialized, server_version, vars, curves, funcs,
                   call, out, stale, scenario>>

\* the result of update_curves_list returned by every caller
CurvesRefreshed_error_returned(err) ==
    IF frame.op = "init"
    THEN IF err # SLLP_SUCCESS
         THEN Return(err)
         ELSE Goto("update_funcs_list", [NoFrame EXCEPT !.op = "init"])
    ELSE Return(err)

\* what the caller of update_curves_list does with its result
CurvesRefreshed(err) ==
    IF frame.op = "init"
    THEN IF err # SLLP_SUCCESS
         THEN Return(err)
         ELSE Goto("update_funcs_list", [NoFrame EXCEPT !.op = "init"])
    ELSE Return(SLLP_SUCCESS)

\* update_curves_list zeroing the list before it looks at the response
update_curves_list_zeroed_first ==
    /\ pc = "update_curves_list"
    /\ \E o \in CurveListOutcomes :
         LET r == command(Request("CMD_CURVE_QUERY_LIST", 0, <<>>), o) IN
         /\ wire' = wire \o r.events
         /\ last' = o
         /\ IF r.err # SLLP_SUCCESS \/ r.response.code # "CMD_CURVE_LIST"
            THEN /\ CurvesRefreshed(SLLP_ERR_COMM)
                 /\ curves' = <<>>
            ELSE /\ curves' = ZeroCurves(r.response)
                 /\ IF r.response.payload_size \div SLLP_CURVE_LIST_INFO = 0
                    THEN CurvesRefreshed(SLLP_SUCCESS)
                    ELSE Goto("update_curves_list_loop",
                              [frame EXCEPT !.i = 0, !.list = r.response])
    /\ UNCHANGED <<initialized, server_version, vars, groups, funcs,
                   call, out, stale, scenario>>

\* update_curves_list up to the start of its loop
update_curves_list ==
    /\ pc = "update_curves_list"
    /\ \E o \in CurveListOutcomes :
         LET r == command(Request("CMD_CURVE_QUERY_LIST", 0, <<>>), o) IN
         /\ wire' = wire \o r.events
         /\ last' = o
         /\ IF r.err # SLLP_SUCCESS \/ r.response.code # "CMD_CURVE_LIST"
            THEN /\ CurvesRefreshed(SLLP_ERR_COMM)
                 /\ UNCHANGED curves
            ELSE /\ curves' = ZeroCurves(r.response)
                 /\ IF r.response.payload_size \div SLLP_CURVE_LIST_INFO = 0
                    THEN CurvesRefreshed(SLLP_SUCCESS)
                    ELSE Goto("update_curves_list_loop",
                              [frame EXCEPT !.i = 0, !.list = r.response])
    /\ UNCHANGED <<initialized, server_version, vars, groups, funcs,
                   call, out, stale, scenario>>

\* the loop of update_curves_list ending the refresh at the first checksum
\* query that fails
update_curves_list_loop_fatal ==
    /\ pc = "update_curves_list_loop"
    /\ \E o \in CsumOutcomes :
         LET r == command(Request("CMD_CURVE_QUERY_CSUM", 1, <<frame.i>>), o)
             c == DecodeCurve(frame.i, frame.list)
         IN
         /\ wire' = wire \o r.events
         /\ last' = o
         /\ IF r.err # SLLP_SUCCESS \/ r.response.code # "CMD_CURVE_CSUM"
            THEN /\ curves' = [curves EXCEPT ![frame.i + 1] = c]
                 /\ CurvesRefreshed(SLLP_ERR_COMM)
            ELSE /\ curves' = [curves EXCEPT ![frame.i + 1] =
                                 [c EXCEPT !.checksum = DecodeCsum(r.response)]]
                 /\ IF frame.i + 1 < Len(curves)
                    THEN Goto("update_curves_list_loop",
                              [frame EXCEPT !.i = frame.i + 1])
                    ELSE CurvesRefreshed(SLLP_SUCCESS)
    /\ UNCHANGED <<initialized, server_version, vars, groups, funcs,
                   call, out, stale, scenario>>

\* one iteration of the loop of update_curves_list
update_curves_list_loop ==
    /\ pc = "update_curves_list_loop"
    /\ \E o \in CsumOutcomes :
         LET r == command(Request("CMD_CURVE_QUERY_CSUM", 1, <<frame.i>>), o)
             c == DecodeCurve(frame.i, frame.list)
         IN
         /\ wire' = wire \o r.events
         /\ last' = o
         /\ IF r.err # SLLP_SUCCESS \/ r.response.code # "CMD_CURVE_CSUM"
            THEN curves' = [curves EXCEPT ![frame.i + 1] = c]
            ELSE curves' = [curves EXCEPT ![frame.i + 1] =
                              [c EXCEPT !.checksum = DecodeCsum(r.response)]]
         /\ IF frame.i + 1 < Len(curves)
            THEN Goto("update_curves_list_loop",
                      [frame EXCEPT !.i = frame.i + 1])
            ELSE CurvesRefreshed(SLLP_SUCCESS)
    /\ UNCHANGED <<initialized, server_version, vars, groups, funcs,
                   call, out, stale, scenario>>

\* update_funcs_list (called by sllp_client_init only) and the end of
\* sllp_client_init
update_funcs_list ==
    /\ pc = "update_funcs_list"
    /\ \E o \in FuncListOutcomes :
         LET r == command(Request("CMD_FUNC_QUERY_LIST", 0, <<>>), o) IN
         /\ wire' = wire \o r.events
         /\ last' = o
         /\ IF r.err # SLLP_SUCCESS \/ r.response.code # "CMD_FUNC_LIST"
            THEN /\ Return(SLLP_ERR_COMM)
                 /\ UNCHANGED <<funcs, initialized>>
            ELSE /\ funcs' = DecodeFuncs(r.response)
                 /\ InitDone
    /\ UNCHANGED <<server_version, vars, groups, curves,
                   call, out, stale, scenario>>

----------------------------------------------------------------------------
(* Entity operations that make at most one exchange.  Each operator is the  *)
(* function's whole body: what it returns, the transport calls it made and  *)
(* what it wrote to the caller's buffers, given its arguments and what the  *)
(* transport does if it is reached.  A pointer argument to a caller buffer  *)
(* is given as whether it is non-NULL.                                      *)

\* value[k] of a caller-supplied input buffer (0-based)
UserByte(k) == 16 + (k % 4)
UserBytes(n) == [k \in 1..n |-> UserByte(k - 1)]

\* memcpy(dst, response.payload + from, n): the bytes written
Copy(response, from, n) == [k \in 1..n |-> RespByte(response, from + k - 1)]

\* returned before any exchange
Local(e) == [ret |-> e, events |-> <<>>, last |-> NoExchange, out |-> NoOut]
\* returned after the exchange r (transport outcome o)
Done(e, r, o, written) ==
    [ret |-> e, events |-> r.events, last |-> o, out |-> written]

\* sllp_read_var without the membership check
sllp_read_var_unchecked(var, value, o) ==
    IF var = NULL \/ ~value THEN Local(SLLP_ERR_PARAM_INVALID)
    ELSE LET r == command(Request("CMD_VAR_READ", 1, <<VarAt(var).id>>), o) IN
         IF r.err # SLLP_SUCCESS THEN Done(SLLP_ERR_COMM, r, o, NoOut)
         ELSE IF r.response.code # "CMD_VAR_VALUE"
         THEN Done(SLLP_ERR_COMM, r, o, NoOut)
         ELSE Done(SLLP_SUCCESS, r, o,
                   [NoOut EXCEPT !.buf =
                       Copy(r.response, 0, r.response.payload_size)])

sllp_read_var(var, value, o) ==
    IF var = NULL \/ ~value THEN Local(SLLP_ERR_PARAM_INVALID)
    ELSE IF ~list_contains(vars, var) THEN Local(SLLP_ERR_PARAM_INVALID)
    ELSE LET r == command(Request("CMD_VAR_READ", 1, <<VarAt(var).id>>), o) IN
         IF r.err # SLLP_SUCCESS THEN Done(SLLP_ERR_COMM, r, o, NoOut)
         ELSE IF r.response.code # "CMD_VAR_VALUE"
         THEN Done(SLLP_ERR_COMM, r, o, NoOut)
         ELSE Done(SLLP_SUCCESS, r, o,
                   [NoOut EXCEPT !.buf =
                       Copy(r.response, 0, r.response.payload_size)])

\* sllp_write_var without the check of the writable flag
sllp_write_var_unchecked(var, value, o) ==
    IF var = NULL \/ ~value THEN Local(SLLP_ERR_PARAM_INVALID)
    ELSE IF ~list_contains(vars, var) THEN Local(SLLP_ERR_PARAM_INVALID)
    ELSE LET r == command(Request("CMD_VAR_WRITE", 1 + VarAt(var).size,
                                  <<VarAt(var).id>>
                                  \o UserBytes(VarAt(var).size)), o) IN
         IF r.err # SLLP_SUCCESS THEN Done(SLLP_ERR_COMM, r, o, NoOut)
         ELSE IF r.response.code # "CMD_OK"
         THEN Done(SLLP_ERR_COMM, r, o, NoOut)
         ELSE Done(SLLP_SUCCESS, r, o, NoOut)

sllp_write_var(var, value, o) ==
    IF var = NULL \/ ~value THEN Local(SLLP_ERR_PARAM_INVALID)
    ELSE IF ~list_contains(vars, var) THEN Local(SLLP_ERR_PARAM_INVALID)
    ELSE IF ~VarAt(var).writable THEN Local(SLLP_ERR_PARAM_INVALID)
    ELSE LET r == command(Request("CMD_VAR_WRITE", 1 + VarAt(var).size,
                                  <<VarAt(var).id>>
                                  \o UserBytes(VarAt(var).size)), o) IN
         IF r.err # SLLP_SUCCESS THEN Done(SLLP_ERR_COMM, r, o, NoOut)
         ELSE IF r.response.code # "CMD_OK"
         THEN Done(SLLP_ERR_COMM, r, o, NoOut)
         ELSE Done(SLLP_SUCCESS, r, o, NoOut)

sllp_write_read_vars(write_var, write_value, read_var, read_value, o) ==
    IF write_var = NULL \/ ~write_value \/ read_var = NULL \/ ~read_value
    THEN Local(SLLP_ERR_PARAM_INVALID)
    ELSE IF ~list_contains(vars, write_var) \/ ~VarAt(write_var).writable
    THEN Local(SLLP_ERR_PARAM_INVALID)
    ELSE IF ~list_contains(vars, read_var) THEN Local(SLLP_ERR_PARAM_INVALID)
    ELSE LET r == command(Request("CMD_VAR_WRITE_READ",
                                  2 + VarAt(write_var).size,
                                  <<VarAt(write_var).id, VarAt(read_var).id>>
                                  \o UserBytes(VarAt(write_var).size)), o) IN
         IF r.err # SLLP_SUCCESS THEN Done(SLLP_ERR_COMM, r, o, NoOut)
         ELSE IF r.response.code # "CMD_VAR_VALUE"
         THEN Done(SLLP_ERR_COMM, r, o, NoOut)
         ELSE Done(SLLP_SUCCESS, r, o,
                   [NoOut EXCEPT !.buf =
                       Copy(r.response, 0, VarAt(read_var).size)])

sllp_read_group(grp, values, o) ==
    IF grp = NULL \/ ~values THEN Local(SLLP_ERR_PARAM_INVALID)
    ELSE IF ~list_contains(groups, grp) THEN Local(SLLP_ERR_PARAM_INVALID)
    ELSE LET r == command(Request("CMD_GROUP_READ", 1,
                                  <<groups[grp + 1].id>>), o) IN
         IF r.err # SLLP_SUCCESS THEN Done(SLLP_ERR_COMM, r, o, NoOut)
         ELSE IF r.response.code # "CMD_GROUP_VALUES"
         THEN Done(SLLP_ERR_COMM, r, o, NoOut)
         ELSE Done(SLLP_SUCCESS, r, o,
                   [NoOut EXCEPT !.buf =
                       Copy(r.response, 0, r.response.payload_size)])

\* sllp_write_group checking the writable flag only after the exchange
sllp_write_group_checked_late(grp, values, o) ==
    IF grp = NULL \/ ~values THEN Local(SLLP_ERR_PARAM_INVALID)
    ELSE IF ~list_contains(groups, grp) THEN Local(SLLP_ERR_PARAM_INVALID)
    ELSE LET r == command(Request("CMD_GROUP_WRITE", 1 + groups[grp + 1].size,
                                  <<groups[grp + 1].id>>
                                  \o UserBytes(groups[grp + 1].size)), o) IN
         IF ~groups[grp + 1].writable
         THEN Done(SLLP_ERR_PARAM_INVALID, r, o, NoOut)
         ELSE IF r.err # SLLP_SUCCESS THEN Done(SLLP_ERR_COMM, r, o, NoOut)
         ELSE IF r.response.code # "CMD_OK"
         THEN Done(SLLP_ERR_COMM, r, o, NoOut)
         ELSE Done(SLLP_SUCCESS, r, o, NoOut)

sllp_write_group(grp, values, o) ==
    IF grp = NULL \/ ~values THEN Local(SLLP_ERR_PARAM_INVALID)
    ELSE IF ~list_contains(groups, grp) THEN Local(SLLP_ERR_PARAM_INVALID)
    ELSE IF ~groups[grp + 1].writable THEN Local(SLLP_ERR_PARAM_INVALID)
    ELSE LET r == command(Request("CMD_GROUP_WRITE", 1 + groups[grp + 1].size,
                                  <<groups[grp + 1].id>>
                                  \o UserBytes(groups[grp + 1].size)), o) IN
         IF r.err # SLLP_SUCCESS THEN Done(SLLP_ERR_COMM, r, o, NoOut)
         ELSE IF r.response.code # "CMD_OK"
         THEN Done(SLLP_ERR_COMM, r, o, NoOut)
         ELSE Done(SLLP_SUCCESS, r, o, NoOut)

\* bin_op_code[]: 'A', 'O', 'X', 'S', 'C', 'T'
bin_op_code == <<65, 79, 88, 83, 67, 84>>

\* sllp_bin_op_var checking the operation before the writable flag
sllp_bin_op_var_op_first(op, var, mask, o) ==
    IF var = NULL \/ ~mask THEN Local(SLLP_ERR_PARAM_INVALID)
    ELSE IF ~list_contains(vars, var) THEN Local(SLLP_ERR_PARAM_INVALID)
    ELSE IF op >= BIN_OP_COUNT THEN Local(SLLP_ERR_PARAM_OUT_OF_RANGE)
    ELSE IF ~VarAt(var).writable THEN Local(SLLP_ERR_PARAM_INVALID)
    ELSE LET r == command(Request("CMD_VAR_BIN_OP", 2 + VarAt(var).size,
                                  <<VarAt(var).id, bin_op_code[op + 1]>>
                                  \o UserBytes(VarAt(var).size)), o) IN
         IF r.err # SLLP_SUCCESS THEN Done(SLLP_ERR_COMM, r, o, NoOut)
         ELSE IF r.response.code # "CMD_OK"
         THEN Done(SLLP_ERR_COMM, r, o, NoOut)
         ELSE Done(SLLP_SUCCESS, r, o, NoOut)

sllp_bin_op_var(op, var, mask, o) ==
    IF var = NULL \/ ~mask THEN Local(SLLP_ERR_PARAM_INVALID)
    ELSE IF ~list_contains(vars, var) THEN Local(SLLP_ERR_PARAM_INVALID)
    ELSE IF ~VarAt(var).writable THEN Local(SLLP_ERR_PARAM_INVALID)
    ELSE IF op >= BIN_OP_COUNT THEN Local(SLLP_ERR_PARAM_OUT_OF_RANGE)
    ELSE LET r == command(Request("CMD_VAR_BIN_OP", 2 + VarAt(var).size,
                                  <<VarAt(var).id, bin_op_code[op + 1]>>
                                  \o UserBytes(VarAt(var).size)), o) IN
         IF r.err # SLLP_SUCCESS THEN Done(SLLP_ERR_COMM, r, o, NoOut)
         ELSE IF r.response.code # "CMD_OK"
         THEN Done(SLLP_ERR_COMM, r, o, NoOut)
         ELSE Done(SLLP_SUCCESS, r, o, NoOut)

sllp_bin_op_group(op, grp, mask, o) ==
    IF grp = NULL \/ ~mask THEN Local(SLLP_ERR_PARAM_INVALID)
    ELSE IF ~list_contains(groups, grp) THEN Local(SLLP_ERR_PARAM_INVALID)
    ELSE IF ~groups[grp + 1].writable THEN Local(SLLP_ERR_PARAM_INVALID)
    ELSE IF op >= BIN_OP_COUNT THEN Local(SLLP_ERR_PARAM_OUT_OF_RANGE)
    ELSE LET r == command(Request("CMD_GROUP_BIN_OP", 2 + groups[grp + 1].size,
                                  <<groups[grp + 1].id, bin_op_code[op + 1]>>
                                  \o UserBytes(groups[grp + 1].size)), o) IN
         IF r.err # SLLP_SUCCESS THEN Done(SLLP_ERR_COMM, r, o, NoOut)
         ELSE IF r.response.code # "CMD_OK"
         THEN Done(SLLP_ERR_COMM, r, o, NoOut)
         ELSE Done(SLLP_SUCCESS, r, o, NoOut)

\* memcpy from response.payload of n bytes at `at` runs past the array
ResponseOverrun(at, n) == at + n > SLLP_MAX_PAYLOAD

\* sllp_request_curve_block rejecting offset = nblocks as well
sllp_request_curve_block_ge(curve, offset, data, len, o) ==
    IF curve = NULL \/ ~data \/ ~len THEN Local(SLLP_ERR_PARAM_INVALID)
    ELSE IF ~list_contains(curves, curve) THEN Local(SLLP_ERR_PARAM_INVALID)
    ELSE IF offset >= curves[curve + 1].nblocks
    THEN Local(SLLP_ERR_PARAM_OUT_OF_RANGE)
    ELSE LET r == command(Request("CMD_CURVE_BLOCK_REQUEST",
                                  SLLP_CURVE_BLOCK_INFO,
                                  <<curves[curve + 1].id,
                                    (offset \div 256) % 256, offset % 256>>), o)
             n == (r.response.payload_size - SLLP_CURVE_BLOCK_INFO) % UINT16
         IN
         IF r.err # SLLP_SUCCESS \/ r.response.code # "CMD_CURVE_BLOCK"
         THEN Done(SLLP_ERR_COMM, r, o, NoOut)
         ELSE Done(SLLP_SUCCESS, r, o,
                   [NoOut EXCEPT !.len = n, !.len_written = TRUE,
                                 !.buf = IF ResponseOverrun(SLLP_CURVE_BLOCK_INFO, n)
                                         THEN <<>>
                                         ELSE Copy(r.response,
                                                   SLLP_CURVE_BLOCK_INFO, n)])

\* *len is uint16_t.  When the copy runs past response.payload the bytes
\* delivered are undefined and not modelled (buf stays empty).
sllp_request_curve_block(curve, offset, data, len, o) ==
    IF curve = NULL \/ ~data \/ ~len THEN Local(SLLP_ERR_PARAM_INVALID)
    ELSE IF ~list_contains(curves, curve) THEN Local(SLLP_ERR_PARAM_INVALID)
    ELSE IF offset > curves[curve + 1].nblocks
    THEN Local(SLLP_ERR_PARAM_OUT_OF_RANGE)
    ELSE LET r == command(Request("CMD_CURVE_BLOCK_REQUEST",
                                  SLLP_CURVE_BLOCK_INFO,
                                  <<curves[curve + 1].id,
                                    (offset \div 256) % 256, offset % 256>>), o)
             n == (r.response.payload_size - SLLP_CURVE_BLOCK_INFO) % UINT16
         IN
         IF r.err # SLLP_SUCCESS \/ r.response.code # "CMD_CURVE_BLOCK"
         THEN Done(SLLP_ERR_COMM, r, o, NoOut)
         ELSE Done(SLLP_SUCCESS, r, o,
                   [NoOut EXCEPT !.len = n, !.len_written = TRUE,
                                 !.buf = IF ResponseOverrun(SLLP_CURVE_BLOCK_INFO, n)
                                         THEN <<>>
                                         ELSE Copy(r.response,
                                                   SLLP_CURVE_BLOCK_INFO, n)])

\* memcpy into request.payload of n bytes at `at` runs past the array
PayloadOverrun(at, n) == at + n > SLLP_MAX_PAYLOAD

\* payload_size is uint16_t.  When the copy of the data runs past
\* request.payload the bytes past the array are not modelled; the bytes sent
\* are the first payload_size bytes of the payload, which the copy leaves
\* as initialized.
sllp_send_curve_block(curve, offset, data, len, o) ==
    IF curve = NULL \/ ~data THEN Local(SLLP_ERR_PARAM_INVALID)
    ELSE IF ~list_contains(curves, curve) THEN Local(SLLP_ERR_PARAM_INVALID)
    ELSE IF ~curves[curve + 1].writable THEN Local(SLLP_ERR_PARAM_INVALID)
    ELSE IF offset > curves[curve + 1].nblocks
    THEN Local(SLLP_ERR_PARAM_OUT_OF_RANGE)
    ELSE IF len > curves[curve + 1].block_size
    THEN Local(SLLP_ERR_PARAM_OUT_OF_RANGE)
    ELSE LET r == command(Request("CMD_CURVE_BLOCK",
                                  len + SLLP_CURVE_BLOCK_INFO,
                                  <<curves[curve + 1].id,
                                    (offset \div 256) % 256, offset % 256>>
                                  \o UserBytes(IF PayloadOverrun(
                                                    SLLP_CURVE_BLOCK_INFO, len)
                                               THEN 0 ELSE len)), o) IN
         IF r.err # SLLP_SUCCESS \/ r.response.code # "CMD_OK"
         THEN Done(SLLP_ERR_COMM, r, o, NoOut)
         ELSE Done(SLLP_SUCCESS, r, o, NoOut)

sllp_func_execute(func, error, input, output, o) ==
    IF func = NULL \/ ~error THEN Local(SLLP_ERR_PARAM_INVALID)
    ELSE IF ~list_contains(funcs, func) THEN Local(SLLP_ERR_PARAM_INVALID)
    ELSE IF funcs[func + 1].input_size # 0 /\ ~input
    THEN Local(SLLP_ERR_PARAM_INVALID)
    ELSE IF funcs[func + 1].output_size # 0 /\ ~output
    THEN Local(SLLP_ERR_PARAM_INVALID)
    ELSE LET r == command(Request("CMD_FUNC_EXECUTE",
                                  1 + funcs[func + 1].input_size,
                                  <<funcs[func + 1].id>>
                                  \o UserBytes(funcs[func + 1].input_size)), o)
         IN
         IF r.err # SLLP_SUCCESS THEN Done(SLLP_ERR_COMM, r, o, NoOut)
         ELSE IF r.response.code = "CMD_FUNC_RETURN"
         THEN Done(SLLP_SUCCESS, r, o,
                   [NoOut EXCEPT !.error = 0, !.error_written = TRUE,
                                 !.buf = Copy(r.response, 0,
                                              funcs[func + 1].output_size)])
         ELSE IF r.response.code = "CMD_FUNC_ERROR"
         THEN Done(SLLP_SUCCESS, r, o,
                   [NoOut EXCEPT !.error = RespByte(r.response, 0),
                                 !.error_written = TRUE])
         ELSE Done(SLLP_ERR_COMM, r, o, NoOut)

----------------------------------------------------------------------------
(* The caller: which public calls are made, with which arguments.  A        *)
(* behaviour uses sllp_client_init and the operations of its scenario's     *)
(* entity kind, in any order and any number of times.                       *)

\* handles a caller may pass: NULL, and the address of any slot of the list
\* array (the slots past count belong to no current entry)
VarHandles   == {NULL} \cup 0..MaxVars
GroupHandles == {NULL} \cup 0..MaxGroups
CurveHandles == {NULL} \cup 0..MaxCurves
FuncHandles  == {NULL} \cup 0..MaxFuncs

\* enum sllp_bin_op values passed: BIN_OP_AND, BIN_OP_TOGGLE, and two
\* outside the enum
BinOps == {0, BIN_OP_COUNT - 1, BIN_OP_COUNT, BIN_OP_COUNT + 1}

Offsets == {0, 1, 2, 3, 258, UINT16 - 1}
Lengths == {0, 2, 3, UINT16 - 1}

OkOutcomes(focus) == Outcomes(focus, "CMD_OK", {<<>>}, <<>>)

ValueOutcomes(code) ==
    Outcomes("variables", code,
             {[k \in 1..n |-> 9] : n \in {1, 4, 5}}, <<9>>)
    \cup {Reply(code, 2, <<9>>, g) : g \in Garbage}

BlockOutcomes ==
    Outcomes("curves", "CMD_CURVE_BLOCK",
             {<<0, 0, 0>>, <<0, 0, 0, 9, 9>>, <<0, 0, 0, 9, 9, 9>>, <<0, 0>>},
             <<0, 0, 0, 9, 9>>)

FuncOutcomes ==
    Faults("CMD_FUNC_RETURN") \cup Unexpected
    \cup {Msg("CMD_FUNC_RETURN", p) : p \in {<<>>, <<3, 4>>}}
    \cup {Msg("CMD_FUNC_ERROR", p) : p \in {<<0>>, <<9>>}}
    \cup {Reply("CMD_FUNC_ERROR", 0, <<>>, g) : g \in Garbage}

\* a call that made at most one exchange has returned
Returned(c, res) ==
    /\ call' = c
    /\ ret' = res.ret
    /\ wire' = res.events
    /\ last' = res.last
    /\ out' = res.out
    /\ pc' = "returned"
    /\ frame' = NoFrame
    /\ UNCHANGED <<initialized, server_version, vars, groups, curves, funcs,
                   stale, scenario>>

\* the process died inside the call, after the transport calls in `events`
Crashed(c, events, o) ==
    /\ call' = c
    /\ ret' = "none"
    /\ wire' = events
    /\ last' = o
    /\ out' = NoOut
    /\ pc' = "crashed"
    /\ frame' = NoFrame
    /\ UNCHANGED <<initialized, server_version, vars, groups, curves, funcs,
                   stale, scenario>>

\* the transport outcomes a call depends on: all of `outcomes` when the call
\* reaches its exchange, and a single one when it returns before (`probe`
\* is the call with a transport whose send fails)
Consulted(outcomes, probe) ==
    IF probe.events = <<>> THEN {SendFail} ELSE outcomes

call_sllp_read_var ==
    /\ pc = "idle" /\ scenario \in {"session", "variables"}
    /\ \E var \in VarHandles, value \in BOOLEAN :
       \E o \in Consulted(ValueOutcomes("CMD_VAR_VALUE"),
                         sllp_read_var(var, value, SendFail)) :
         Returned([op |-> "sllp_read_var", var |-> var, value |-> value],
                  sllp_read_var(var, value, o))

call_sllp_write_var ==
    /\ pc = "idle" /\ scenario \in {"session", "variables"}
    /\ \E var \in VarHandles, value \in BOOLEAN :
       \E o \in Consulted(OkOutcomes("variables"),
                         sllp_write_var(var, value, SendFail)) :
         Returned([op |-> "sllp_write_var", var |-> var, value |-> value],
                  sllp_write_var(var, value, o))

call_sllp_write_read_vars ==
    /\ pc = "idle" /\ scenario = "variables"
    /\ \E write_var \in VarHandles, read_var \in VarHandles, values \in BOOLEAN :
       \E o \in Consulted(ValueOutcomes("CMD_VAR_VALUE"),
                         sllp_write_read_vars(write_var, values, read_var, values, SendFail)) :
         Returned([op |-> "sllp_write_read_vars", write_var |-> write_var,
                   read_var |-> read_var, values |-> values],
                  sllp_write_read_vars(write_var, values, read_var, values, o))

call_sllp_read_group ==
    /\ pc = "idle" /\ scenario = "variables"
    /\ \E grp \in GroupHandles, values \in BOOLEAN :
       \E o \in Consulted(ValueOutcomes("CMD_GROUP_VALUES"),
                         sllp_read_group(grp, values, SendFail)) :
         Returned([op |-> "sllp_read_group", grp |-> grp, values |-> values],
                  sllp_read_group(grp, values, o))

call_sllp_write_group ==
    /\ pc = "idle" /\ scenario = "variables"
    /\ \E grp \in GroupHandles, values \in BOOLEAN :
       \E o \in Consulted(OkOutcomes("variables"),
                         sllp_write_group(grp, values, SendFail)) :
         Returned([op |-> "sllp_write_group", grp |-> grp, values |-> values],
                  sllp_write_group(grp, values, o))

call_sllp_bin_op_var ==
    /\ pc = "idle" /\ scenario = "variables"
    /\ \E op \in BinOps, var \in VarHandles, mask \in BOOLEAN :
       \E o \in Consulted(OkOutcomes("variables"),
                         sllp_bin_op_var(op, var, mask, SendFail)) :
         Returned([op |-> "sllp_bin_op_var", bin_op |-> op, var |-> var,
                   mask |-> mask],
                  sllp_bin_op_var(op, var, mask, o))

call_sllp_bin_op_group ==
    /\ pc = "idle" /\ scenario = "variables"
    /\ \E op \in BinOps, grp \in GroupHandles, mask \in BOOLEAN :
       \E o \in Consulted(OkOutcomes("variables"),
                         sllp_bin_op_group(op, grp, mask, SendFail)) :
         Returned([op |-> "sllp_bin_op_group", bin_op |-> op, grp |-> grp,
                   mask |-> mask],
                  sllp_bin_op_group(op, grp, mask, o))

\* sllp_request_curve_block.  When the copy of the block runs past
\* response.payload the behaviour is undefined: the call either carries on,
\* or the process dies.
call_sllp_request_curve_block ==
    /\ pc = "idle" /\ scenario = "curves"
    /\ \E curve \in CurveHandles, offset \in Offsets, bufs \in BOOLEAN :
       \E o \in Consulted(BlockOutcomes,
                         sllp_request_curve_block(curve, offset, bufs, bufs, SendFail)) :
         LET c == [op |-> "sllp_request_curve_block", curve |-> curve,
                   offset |-> offset, bufs |-> bufs]
             res == sllp_request_curve_block(curve, offset, bufs, bufs, o)
         IN
         \/ Returned(c, res)
         \/ /\ res.ret = SLLP_SUCCESS
            /\ ResponseOverrun(SLLP_CURVE_BLOCK_INFO, res.out.len)
            /\ Crashed(c, res.events, res.last)

\* sllp_send_curve_block.  When the copy of the data runs past
\* request.payload the behaviour is undefined: the call either carries on
\* with the request as sized, or the process dies.
call_sllp_send_curve_block ==
    /\ pc = "idle" /\ scenario = "curves"
    /\ \E curve \in CurveHandles, offset \in Offsets, data \in BOOLEAN, len \in Lengths :
       \E o \in Consulted(OkOutcomes("curves"),
                         sllp_send_curve_block(curve, offset, data, len, SendFail)) :
         LET c == [op |-> "sllp_send_curve_block", curve |-> curve,
                   offset |-> offset, data |-> data, len |-> len]
             res == sllp_send_curve_block(curve, offset, data, len, o)
         IN
         \/ Returned(c, res)
         \/ /\ res.events # <<>>
            /\ PayloadOverrun(SLLP_CURVE_BLOCK_INFO, len)
            /\ Crashed(c, <<>>, NoExchange)

call_sllp_func_execute ==
    /\ pc = "idle" /\ scenario = "functions"
    /\ \E func \in FuncHandles, error \in BOOLEAN, bufs \in BOOLEAN :
       \E o \in Consulted(FuncOutcomes,
                         sllp_func_execute(func, error, bufs, bufs, SendFail)) :
         Returned([op |-> "sllp_func_execute", func |-> func, error |-> error,
                   bufs |-> bufs],
                  sllp_func_execute(func, error, bufs, bufs, o))

----------------------------------------------------------------------------
(* Operations that refresh a catalog after their own exchange.  The         *)
(* operator is the function up to the call of the refresh; the refresh      *)
(* then runs through the steps above and the function returns SLLP_SUCCESS  *)
(* whatever the refresh returned (GroupsRefreshed, CurvesRefreshed).        *)

\* lists a caller may pass to sllp_create_group: the Variables before the
\* NULL that ends the array
VarLists == UNION {[1..n -> 0..MaxVars] : n \in 0..2}

\* the while loop: it returns at the first listed Variable that is not in
\* the catalog, and otherwise collects the ids in order
AllListed(list) == \A k \in 1..Len(list) : list_contains(vars, list[k])
CollectIds(list) == [k \in 1..Len(list) |-> VarAt(list[k]).id]

\* sllp_create_group without the membership check of the listed Variables
sllp_create_group_unchecked(list_given, list, o) ==
    IF ~list_given \/ list = <<>> THEN Local(SLLP_ERR_PARAM_INVALID)
    ELSE LET r == command(Request("CMD_GROUP_CREATE", Len(CollectIds(list)),
                                  CollectIds(list)), o) IN
         IF r.err # SLLP_SUCCESS THEN Done(SLLP_ERR_COMM, r, o, NoOut)
         ELSE IF r.response.code # "CMD_OK"
         THEN Done(SLLP_ERR_COMM, r, o, NoOut)
         ELSE Done(SLLP_SUCCESS, r, o, NoOut)

sllp_create_group(list_given, list, o) ==
    IF ~list_given \/ list = <<>> THEN Local(SLLP_ERR_PARAM_INVALID)
    ELSE IF ~AllListed(list) THEN Local(SLLP_ERR_PARAM_INVALID)
    ELSE IF Len(CollectIds(list)) = 0 THEN Local(SLLP_ERR_PARAM_INVALID)
    ELSE LET r == command(Request("CMD_GROUP_CREATE", Len(CollectIds(list)),
                                  CollectIds(list)), o) IN
         IF r.err # SLLP_SUCCESS THEN Done(SLLP_ERR_COMM, r, o, NoOut)
         ELSE IF r.response.code # "CMD_OK"
         THEN Done(SLLP_ERR_COMM, r, o, NoOut)
         ELSE Done(SLLP_SUCCESS, r, o, NoOut)

sllp_remove_all_groups(o) ==
    LET r == command(Request("CMD_GROUP_REMOVE_ALL", 0, <<>>), o) IN
    IF r.err # SLLP_SUCCESS \/ r.response.code # "CMD_OK"
    THEN Done(SLLP_ERR_COMM, r, o, NoOut)
    ELSE Done(SLLP_SUCCESS, r, o, NoOut)

sllp_recalc_checksum(curve, o) ==
    IF curve = NULL THEN Local(SLLP_ERR_PARAM_INVALID)
    ELSE IF ~list_contains(curves, curve) THEN Local(SLLP_ERR_PARAM_INVALID)
    ELSE LET r == command(Request("CMD_CURVE_RECALC_CSUM", 1,
                                  <<curves[curve + 1].id>>), o) IN
         IF r.err # SLLP_SUCCESS THEN Done(SLLP_ERR_COMM, r, o, NoOut)
         ELSE IF r.response.code # "CMD_OK"
         THEN Done(SLLP_ERR_COMM, r, o, NoOut)
         ELSE Done(SLLP_SUCCESS, r, o, NoOut)

\* the refresh at `label` started whatever the command returned
ReturnedOrRefresh_unconditional(c, res, label) ==
    /\ call' = c
    /\ wire' = res.events
    /\ last' = res.last
    /\ out' = res.out
    /\ Goto(label, [NoFrame EXCEPT !.op = c.op])
    /\ UNCHANGED <<initialized, server_version, vars, groups, curves,
                   funcs, stale, scenario>>

\* the call either has returned an error, or goes on to the refresh at
\* `label`
ReturnedOrRefresh(c, res, label) ==
    IF res.ret # SLLP_SUCCESS
    THEN Returned(c, res)
    ELSE /\ call' = c
         /\ wire' = res.events
         /\ last' = res.last
         /\ out' = res.out
         /\ Goto(label, [NoFrame EXCEPT !.op = c.op])
         /\ UNCHANGED <<initialized, server_version, vars, groups, curves,
                        funcs, stale, scenario>>

call_sllp_create_group ==
    /\ pc = "idle" /\ scenario = "variables"
    /\ \E list_given \in BOOLEAN, list \in VarLists :
       \E o \in Consulted(OkOutcomes("variables"),
                         sllp_create_group(list_given, list, SendFail)) :
         ReturnedOrRefresh([op |-> "sllp_create_group",
                            list_given |-> list_given, list |-> list],
                           sllp_create_group(list_given, list, o),
                           "update_groups_list")

call_sllp_remove_all_groups ==
    /\ pc = "idle" /\ scenario = "variables"
    /\ \E o \in OkOutcomes("variables") :
         ReturnedOrRefresh([op |-> "sllp_remove_all_groups"],
                           sllp_remove_all_groups(o), "update_groups_list")

call_sllp_recalc_checksum ==
    /\ pc = "idle" /\ scenario = "curves"
    /\ \E curve \in CurveHandles :
       \E o \in Consulted(OkOutcomes("curves"),
                         sllp_recalc_checksum(curve, SendFail)) :
         ReturnedOrRefresh([op |-> "sllp_recalc_checksum", curve |-> curve],
                           sllp_recalc_checksum(curve, o), "update_curves_list")

\* the caller has looked at what the call returned and goes on
caller_continues ==
    /\ pc = "returned"
    /\ pc' = "idle"
    /\ call' = NoCall
    /\ ret' = "none"
    /\ wire' = <<>>
    /\ last' = NoExchange
    /\ out' = NoOut
    /\ UNCHANGED <<initialized, server_version, vars, groups, curves, funcs,
                   frame, stale, scenario>>

Next ==
    \/ caller_continues
    \/ sllp_client_init
    \/ update_vars_list
    \/ update_groups_list
    \/ update_groups_list_loop
    \/ update_curves_list
    \/ update_curves_list_loop
    \/ update_funcs_list
    \/ call_sllp_read_var
    \/ call_sllp_write_var
    \/ call_sllp_write_read_vars
    \/ call_sllp_read_group
    \/ call_sllp_write_group
    \/ call_sllp_bin_op_var
    \/ call_sllp_bin_op_group
    \/ call_sllp_request_curve_block
    \/ call_sllp_send_curve_block
    \/ call_sllp_func_execute
    \/ call_sllp_create_group
    \/ call_sllp_remove_all_groups
    \/ call_sllp_recalc_checksum

Spec == Init /\ [][Next]_vars_all

----------------------------------------------------------------------------
(* Properties of the session initialization *)

IsSend(e) == e.t = "send"
\* the send calls among the transport calls of the current call, in order
Sends == SelectSeq(wire, IsSend)

\* the exchange with transport outcome o yielded no response
ExchangeFailed(o) == ~o.send \/ ~o.recv \/ o.size < MinRecvSize

\* the step of sllp_client_init a request belongs to
InitStage(code) ==
    CASE code = "CMD_QUERY_VERSION"                               -> 1
      [] code = "CMD_VAR_QUERY_LIST"                              -> 2
      [] code \in {"CMD_GROUP_QUERY_LIST", "CMD_GROUP_QUERY"}      -> 3
      [] code \in {"CMD_CURVE_QUERY_LIST", "CMD_CURVE_QUERY_CSUM"} -> 4
      [] code = "CMD_FUNC_QUERY_LIST"                             -> 5
      [] OTHER                                                    -> 0

\* the request that opens each step
StageOpeners ==
    {"CMD_QUERY_VERSION", "CMD_VAR_QUERY_LIST", "CMD_GROUP_QUERY_LIST",
     "CMD_CURVE_QUERY_LIST", "CMD_FUNC_QUERY_LIST"}

\* the response code a step's request must be answered with
ExpectedCode(code) ==
    CASE code = "CMD_VAR_QUERY_LIST"   -> "CMD_VAR_LIST"
      [] code = "CMD_GROUP_QUERY_LIST" -> "CMD_GROUP_LIST"
      [] code = "CMD_GROUP_QUERY"      -> "CMD_GROUP"
      [] code = "CMD_CURVE_QUERY_LIST" -> "CMD_CURVE_LIST"
      [] code = "CMD_FUNC_QUERY_LIST"  -> "CMD_FUNC_LIST"
      [] OTHER                         -> "any"

\* the exchange that sent `code` makes its step fail: the version query
\* fails with its exchange only, a checksum query never fails the Curves
\* refresh, every other query also fails on an unexpected response code
StepFailed(code, o) ==
    CASE code = "CMD_QUERY_VERSION"    -> ExchangeFailed(o)
      [] code = "CMD_CURVE_QUERY_CSUM" -> FALSE
      [] OTHER -> ExchangeFailed(o) \/ o.code # ExpectedCode(code)

\* the requests s go through the steps in order, each step opened once by
\* its own query and none skipped
InitOrder(s) ==
    /\ s # <<>> => s[1].code = "CMD_QUERY_VERSION"
    /\ \A k \in 1..Len(s) : InitStage(s[k].code) # 0
    /\ \A k \in 2..Len(s) :
         \/ /\ InitStage(s[k].code) = InitStage(s[k - 1].code)
            /\ s[k].code \notin StageOpeners
         \/ /\ InitStage(s[k].code) = InitStage(s[k - 1].code) + 1
            /\ s[k].code \in StageOpeners

\* C1: during sllp_client_init the exchanges are made in the order version
\* query, Variables refresh, Groups refresh, Curves refresh, Functions
\* refresh; the call returns SLLP_ERR_COMM right at the first exchange that
\* makes its step fail, so no exchange of a later step is made, and it
\* returns success only after the Functions refresh.
InitExchangesInOrder ==
    call.op = "sllp_client_init" =>
        /\ Sends # <<>>
        /\ InitOrder(Sends)
        /\ LET failed == StepFailed(Sends[Len(Sends)].code, last) IN
           /\ failed => pc = "returned" /\ ret = SLLP_ERR_COMM
           /\ pc = "returned" /\ ret # SLLP_SUCCESS => failed
           /\ pc = "returned" /\ ret = SLLP_SUCCESS =>
                  Sends[Len(Sends)].code = "CMD_FUNC_QUERY_LIST"

\* sllp_client_init has failed at the query of its second Group
InitAbortedInGroups ==
    /\ call.op = "sllp_client_init"
    /\ pc = "returned"
    /\ ret = SLLP_ERR_COMM
    /\ Len(Sends) = 5
    /\ Sends[5].code = "CMD_GROUP_QUERY"
    /\ Sends[5].body = <<0, 1, 1>>

\* C2: whenever sllp_client_init has returned an error the session is
\* marked not-initialized.
FailedInitLeavesUninitialized ==
    call.op = "sllp_client_init" /\ pc = "returned" /\ ret # SLLP_SUCCESS
        => initialized = FALSE

----------------------------------------------------------------------------
(* Properties of the local validation *)

EntityOps ==
    {"sllp_read_var", "sllp_write_var", "sllp_write_read_vars",
     "sllp_read_group", "sllp_write_group", "sllp_bin_op_var",
     "sllp_bin_op_group", "sllp_create_group", "sllp_remove_all_groups",
     "sllp_request_curve_block", "sllp_send_curve_block",
     "sllp_recalc_checksum", "sllp_func_execute"}

\* C3: an entity operation that has returned SLLP_ERR_PARAM_INVALID or
\* SLLP_ERR_PARAM_OUT_OF_RANGE has called neither send nor recv.
LocalRejectionMakesNoTransportCall ==
    /\ pc = "returned"
    /\ call.op \in EntityOps
    /\ ret \in {SLLP_ERR_PARAM_INVALID, SLLP_ERR_PARAM_OUT_OF_RANGE}
    => wire = <<>>

\* a bitwise operation on a writable Group was rejected for its operation
\* tag
GroupBinOpOutOfRange ==
    /\ pc = "returned"
    /\ call.op = "sllp_bin_op_group"
    /\ ret = SLLP_ERR_PARAM_OUT_OF_RANGE
    /\ call.grp \in 0..(Len(groups) - 1)
    /\ wire = <<>>

\* sllp_write_var was called on a read-only Variable of the catalog
WriteToReadOnlyVar ==
    /\ pc = "returned"
    /\ call.op = "sllp_write_var"
    /\ call.var \in 0..(Len(vars) - 1)
    /\ ~vars[call.var + 1].writable

\* C4: sllp_write_var on a Variable of the catalog that is not writable
\* returns SLLP_ERR_PARAM_INVALID and makes no transport call.
WriteToReadOnlyVarRejected ==
    WriteToReadOnlyVar => ret = SLLP_ERR_PARAM_INVALID /\ wire = <<>>

\* such a write, with a value buffer given, was rejected
ReadOnlyWriteRejected ==
    /\ WriteToReadOnlyVar
    /\ call.value
    /\ ret = SLLP_ERR_PARAM_INVALID
    /\ wire = <<>>

\* the target of the bitwise operation just made: whether it is an entry
\* of the current catalog, and its writable flag
BinOpTarget ==
    IF call.op = "sllp_bin_op_var"
    THEN IF call.var \in 0..(Len(vars) - 1)
         THEN [listed |-> TRUE, writable |-> vars[call.var + 1].writable]
         ELSE [listed |-> FALSE, writable |-> FALSE]
    ELSE IF call.grp \in 0..(Len(groups) - 1)
         THEN [listed |-> TRUE, writable |-> groups[call.grp + 1].writable]
         ELSE [listed |-> FALSE, writable |-> FALSE]

\* a bitwise operation with a tag outside the six defined ones was made on
\* an entry of the current catalog, with a mask given
BadBinOpCall ==
    /\ pc = "returned"
    /\ call.op \in {"sllp_bin_op_var", "sllp_bin_op_group"}
    /\ call.bin_op >= BIN_OP_COUNT
    /\ call.mask
    /\ BinOpTarget.listed

\* C5 as claimed: a bitwise operation with a tag outside the six defined
\* ones returns SLLP_ERR_PARAM_OUT_OF_RANGE without a transport call,
\* whatever the writable flag of its target.
BadBinOpAlwaysOutOfRange ==
    BadBinOpCall => ret = SLLP_ERR_PARAM_OUT_OF_RANGE /\ wire = <<>>

\* C5 as amended: a bitwise operation with a tag outside the six defined
\* ones makes no transport call; it returns SLLP_ERR_PARAM_OUT_OF_RANGE when
\* its target is writable and SLLP_ERR_PARAM_INVALID when it is not.
BadBinOpRejectedByWritability ==
    BadBinOpCall =>
        /\ wire = <<>>
        /\ ret = IF BinOpTarget.writable
                 THEN SLLP_ERR_PARAM_OUT_OF_RANGE
                 ELSE SLLP_ERR_PARAM_INVALID

\* a bad tag on a read-only Variable was answered SLLP_ERR_PARAM_INVALID
BadBinOpOnReadOnlyVar ==
    /\ BadBinOpCall
    /\ call.op = "sllp_bin_op_var"
    /\ ~BinOpTarget.writable
    /\ ret = SLLP_ERR_PARAM_INVALID

----------------------------------------------------------------------------
(* Properties of the Curve block transfers *)

\* sllp_request_curve_block was called on a Curve of the catalog
RequestBlockCall ==
    /\ pc = "returned"
    /\ call.op = "sllp_request_curve_block"
    /\ call.curve \in 0..(Len(curves) - 1)

\* C6: sllp_request_curve_block on a Curve of the catalog returns
\* SLLP_ERR_PARAM_OUT_OF_RANGE, without an exchange, exactly when
\* offset > nblocks; with offset <= nblocks, offset = nblocks included, the
\* request (curve id, offset big-endian) is sent.
RequestBlockRangeCheck ==
    RequestBlockCall =>
        LET curve == curves[call.curve + 1] IN
        /\ ret = SLLP_ERR_PARAM_OUT_OF_RANGE =>
               call.offset > curve.nblocks /\ wire = <<>>
        /\ call.bufs /\ call.offset > curve.nblocks =>
               ret = SLLP_ERR_PARAM_OUT_OF_RANGE
        /\ call.bufs /\ call.offset <= curve.nblocks =>
               /\ Len(Sends) = 1
               /\ Sends[1].code = "CMD_CURVE_BLOCK_REQUEST"
               /\ Sends[1].body = <<0, 3, curve.id,
                                    call.offset \div 256, call.offset % 256>>

\* a block at offset = nblocks was requested from the server
RequestAtNblocksSent ==
    /\ RequestBlockCall
    /\ call.bufs
    /\ call.offset = curves[call.curve + 1].nblocks
    /\ Len(Sends) = 1
    /\ ret = SLLP_SUCCESS

\* sllp_send_curve_block was called on a Curve of the catalog, with data
SendBlockCall ==
    /\ pc = "returned"
    /\ call.op = "sllp_send_curve_block"
    /\ call.curve \in 0..(Len(curves) - 1)
    /\ call.data

\* C7: sllp_send_curve_block returns SLLP_ERR_PARAM_INVALID when the Curve
\* is not writable and SLLP_ERR_PARAM_OUT_OF_RANGE when offset > nblocks or
\* len > block_size, without sending; otherwise it makes exactly one
\* exchange, whose request carries the curve id, the offset (2 bytes,
\* big-endian) and the len bytes of data.
SendBlockValidatedThenSent ==
    SendBlockCall =>
        LET curve == curves[call.curve + 1] IN
        IF ~curve.writable
        THEN ret = SLLP_ERR_PARAM_INVALID /\ wire = <<>>
        ELSE IF call.offset > curve.nblocks \/ call.len > curve.block_size
        THEN ret = SLLP_ERR_PARAM_OUT_OF_RANGE /\ wire = <<>>
        ELSE /\ Len(Sends) = 1
             /\ Sends[1].code = "CMD_CURVE_BLOCK"
             /\ Len(Sends[1].body) = 2 + SLLP_CURVE_BLOCK_INFO + call.len
             /\ SubSeq(Sends[1].body, 3, 5) =
                    <<curve.id, call.offset \div 256, call.offset % 256>>
             /\ \A k \in 1..call.len : Sends[1].body[5 + k] = UserByte(k - 1)

----------------------------------------------------------------------------
(* Properties of the Function execution and of the version query *)

\* sllp_func_execute has returned after an exchange that yielded a response
FuncExecuteAnswered ==
    /\ pc = "returned"
    /\ call.op = "sllp_func_execute"
    /\ wire # <<>>
    /\ ~ExchangeFailed(last)

\* C8: the outcome of sllp_func_execute follows the response code: on
\* CMD_FUNC_RETURN success, the error byte zero and the output bytes copied
\* from the payload; on CMD_FUNC_ERROR a non-zero error byte and the output
\* buffer untouched; on any other code SLLP_ERR_COMM.
FuncExecuteByResponseCode ==
    FuncExecuteAnswered =>
        LET func == funcs[call.func + 1] IN
        CASE last.code = "CMD_FUNC_RETURN" ->
               /\ ret = SLLP_SUCCESS
               /\ out.error_written /\ out.error = 0
               /\ Len(out.buf) = func.output_size
               /\ \A k \in 1..func.output_size :
                    2 + k <= Len(last.body) => out.buf[k] = last.body[2 + k]
          [] last.code = "CMD_FUNC_ERROR" ->
               /\ out.error_written /\ out.error # 0
               /\ out.buf = <<>>
          [] OTHER -> ret = SLLP_ERR_COMM

\* sllp_client_init has just made its version exchange
VersionQueried ==
    /\ call.op = "sllp_client_init"
    /\ Len(Sends) = 1
    /\ Sends[1].code = "CMD_QUERY_VERSION"

\* C9: the version query fails exactly when its exchange fails; otherwise
\* the session version is 1.0.0 when the response code is
\* CMD_ERR_OP_NOT_SUPPORTED, and else major, minor and revision are the
\* first three payload bytes received.
VersionDecoded ==
    VersionQueried =>
        IF ExchangeFailed(last)
        THEN pc = "returned" /\ ret = SLLP_ERR_COMM
        ELSE /\ pc = "update_vars_list"
             /\ IF last.code = "CMD_ERR_OP_NOT_SUPPORTED"
                THEN server_version = <<1, 0, 0>>
                ELSE \A k \in 1..3 :
                       2 + k <= Len(last.body) =>
                           server_version[k] = last.body[2 + k]

\* a server answered the version query with CMD_ERR_OP_NOT_SUPPORTED and a
\* payload, and the session version is 1.0.0
VersionFallback ==
    /\ VersionQueried
    /\ last.code = "CMD_ERR_OP_NOT_SUPPORTED"
    /\ Len(last.body) = 5
    /\ server_version = <<1, 0, 0>>
    /\ pc = "update_vars_list"

----------------------------------------------------------------------------
(* Properties of the Group catalog *)

\* C10: whenever no call is running, every member reference of every Group
\* of the catalog is an entry of the current Variable catalog, and no Group
\* resolved against an earlier Variable catalog remains after a later
\* Variables refresh.
GroupsReferToCurrentVars ==
    pc \in {"idle", "returned"} =>
        /\ \A i \in 1..Len(groups) :
             \A j \in 1..Len(groups[i].vars.list) :
               groups[i].vars.list[j] \in 0..(Len(vars) - 1)
        /\ groups # <<>> => ~stale

\* the send that opened the latest exchange of the current call
LastSend == Sends[Len(Sends)]

\* a Groups refresh has just ended in success: its last exchange was
\* answered as expected and the refresh is over
GroupsJustRefreshed ==
    /\ pc \in {"returned", "update_curves_list"}
    /\ Sends # <<>>
    /\ LastSend.code \in {"CMD_GROUP_QUERY_LIST", "CMD_GROUP_QUERY"}
    /\ ~StepFailed(LastSend.code, last)

\* C11: after a successful Groups refresh every Group has its vars.count
\* members recorded and its size is the sum of the sizes of these
\* Variables.
GroupSizeIsSumOfMembers ==
    GroupsJustRefreshed =>
        \A i \in 1..Len(groups) :
            /\ groups[i].vars.count <= Len(groups[i].vars.list)
            /\ groups[i].size =
                   SumSizes(SubSeq(groups[i].vars.list, 1, groups[i].vars.count))

\* a Groups refresh has just been aborted by its latest exchange
GroupsRefreshAborted ==
    /\ pc = "returned"
    /\ Sends # <<>>
    /\ LastSend.code \in {"CMD_GROUP_QUERY_LIST", "CMD_GROUP_QUERY"}
    /\ StepFailed(LastSend.code, last)

\* C12: when an exchange of a Groups refresh fails or is answered with an
\* unexpected code, be it the list query or a Group's detail query, the
\* Group catalog is empty afterwards, and sllp_client_init returns the
\* refresh's SLLP_ERR_COMM.
AbortedGroupsRefreshEmptiesCatalog ==
    GroupsRefreshAborted =>
        /\ Len(groups) = 0
        /\ call.op = "sllp_client_init" => ret = SLLP_ERR_COMM

----------------------------------------------------------------------------
(* Properties of the Variable catalog *)

\* C13: every Variable of the catalog has a size in 1..SLLP_VAR_MAX_SIZE;
\* right after a Variables refresh the size of each Variable whose byte
\* was received is the low seven bits of that byte, or SLLP_VAR_MAX_SIZE
\* when these are zero.
VarSizeNeverZero ==
    /\ \A i \in 1..Len(vars) : vars[i].size \in 1..SLLP_VAR_MAX_SIZE
    /\ pc = "update_groups_list" /\ call.op = "sllp_client_init" =>
           \A i \in 1..Len(vars) :
               2 + i <= Len(last.body) =>
                   vars[i].size = IF last.body[2 + i] % 128 = 0
                                  THEN SLLP_VAR_MAX_SIZE
                                  ELSE last.body[2 + i] % 128

\* a Variable listed with size field 0 is in the catalog with the maximum
\* size
ZeroSizeFieldStoredAsMax ==
    /\ pc = "update_groups_list"
    /\ call.op = "sllp_client_init"
    /\ Len(vars) >= 1
    /\ Len(last.body) >= 3
    /\ last.body[3] = 0
    /\ vars[1].size = SLLP_VAR_MAX_SIZE

----------------------------------------------------------------------------
(* Properties of Group creation *)

\* the list given to sllp_create_group is missing, empty, or names a record
\* that is no entry of the Variable catalog
CreateGroupListInvalid ==
    \/ ~call.list_given
    \/ call.list = <<>>
    \/ \E k \in 1..Len(call.list) : call.list[k] \notin 0..(Len(vars) - 1)

\* C14: sllp_create_group returns SLLP_ERR_PARAM_INVALID without a
\* transport call when its list is empty or names a Variable that is not in
\* the catalog; otherwise it sends one CMD_GROUP_CREATE request whose
\* payload is the ids of the listed Variables, in order.
CreateGroupSendsListedIds ==
    call.op = "sllp_create_group" =>
        IF CreateGroupListInvalid
        THEN pc = "returned" /\ ret = SLLP_ERR_PARAM_INVALID /\ wire = <<>>
        ELSE /\ Sends # <<>>
             /\ Sends[1].code = "CMD_GROUP_CREATE"
             /\ Sends[1].body =
                    <<0, Len(call.list)>>
                    \o [k \in 1..Len(call.list) |-> vars[call.list[k] + 1].id]
             /\ \A k \in 2..Len(Sends) : Sends[k].code # "CMD_GROUP_CREATE"

\* a Group of two different Variables was requested from the server
CreateGroupOfTwoSent ==
    /\ call.op = "sllp_create_group"
    /\ ~CreateGroupListInvalid
    /\ Len(call.list) = 2
    /\ call.list[1] > call.list[2]
    /\ Sends[1].body = <<0, 2, call.list[1], call.list[2]>>
    /\ pc = "update_groups_list"

----------------------------------------------------------------------------
(* Properties of the membership check *)

\* the record h is one of the current entries of the catalog
IsEntry(catalog, h) == h \in 0..(Len(catalog) - 1)

\* the call just made was given a record that is no current entry of its
\* catalog
CalledWithUnlistedRecord ==
    CASE call.op \in {"sllp_read_var", "sllp_write_var", "sllp_bin_op_var"} ->
           ~IsEntry(vars, call.var)
      [] call.op = "sllp_write_read_vars" ->
           ~IsEntry(vars, call.write_var) \/ ~IsEntry(vars, call.read_var)
      [] call.op \in {"sllp_read_group", "sllp_write_group",
                      "sllp_bin_op_group"} ->
           ~IsEntry(groups, call.grp)
      [] call.op \in {"sllp_request_curve_block", "sllp_send_curve_block"} ->
           ~IsEntry(curves, call.curve)
      [] call.op = "sllp_recalc_checksum" ->
           \* as long as the call has not refreshed the Curve catalog
           /\ \A k \in 1..Len(Sends) : Sends[k].code # "CMD_CURVE_QUERY_LIST"
           /\ ~IsEntry(curves, call.curve)
      [] call.op = "sllp_func_execute" ->
           ~IsEntry(funcs, call.func)
      [] call.op = "sllp_create_group" ->
           \E k \in 1..Len(call.list) : ~IsEntry(vars, call.list[k])
      [] OTHER -> FALSE

\* C15: an entity operation given a record that is not a current entry of
\* its catalog returns SLLP_ERR_PARAM_INVALID and makes no transport call.
UnlistedRecordRejected ==
    /\ pc \in {"returned", "update_groups_list", "update_curves_list"}
    /\ CalledWithUnlistedRecord
    => pc = "returned" /\ ret = SLLP_ERR_PARAM_INVALID /\ wire = <<>>

\* a read of the first slot of the Variable list was rejected on a session
\* that was never initialized
ReadBeforeInitRejected ==
    /\ pc = "returned"
    /\ call.op = "sllp_read_var"
    /\ call.var = 0
    /\ call.value
    /\ ~initialized
    /\ vars = <<>>
    /\ ret = SLLP_ERR_PARAM_INVALID
    /\ wire = <<>>

\* sllp_create_group of two Variables has returned success after a
\* successful Groups refresh that found at least one Group
CreateOfTwoRefreshed ==
    /\ pc = "returned"
    /\ call.op = "sllp_create_group"
    /\ Len(call.list) = 2
    /\ ret = SLLP_SUCCESS
    /\ GroupsJustRefreshed
    /\ groups # <<>>

\* the last Group of the catalog has its index as id, and the sizes of the
\* two Variables just listed as size
LastGroupIsTheCreatedOne ==
    /\ groups[Len(groups)].id = Len(groups) - 1
    /\ groups[Len(groups)].size =
           vars[call.list[1] + 1].size + vars[call.list[2] + 1].size

\* a read of a Group that reached the transport asked for the Group's
\* index in the catalog
GroupReadByIndex ==
    pc = "returned" /\ call.op = "sllp_read_group" /\ wire # <<>> =>
        /\ Sends[1].code = "CMD_GROUP_READ"
        /\ Sends[1].body = <<0, 1, call.grp>>

\* C16 as claimed: after a successful sllp_create_group of two Variables
\* the last Group of the refreshed catalog has id count-1 and the sum of
\* the two Variables' sizes as size, and a read of a Group sends the
\* Group's index.
CreatedGroupIsLastAndSized ==
    /\ CreateOfTwoRefreshed => LastGroupIsTheCreatedOne
    /\ GroupReadByIndex

\* the server answered the detail query of the last Group with the ids of
\* the two Variables just listed, in order
ServerReportedCreatedMembers ==
    /\ last.code = "CMD_GROUP"
    /\ last.body = <<0, 2, vars[call.list[1] + 1].id, vars[call.list[2] + 1].id>>

\* C16 as amended: the same, when the server's answer to the detail query
\* of the last Group lists the two Variables just given.
CreatedGroupIsLastAndSizedWhenReported ==
    /\ CreateOfTwoRefreshed /\ ServerReportedCreatedMembers
           => LastGroupIsTheCreatedOne
    /\ GroupReadByIndex

\* a Group of the Variables 0 and 1 was created and is the second Group of
\* the refreshed catalog, with the sum of their sizes
CreatedGroupOfTwoRefreshed ==
    /\ CreateOfTwoRefreshed
    /\ ServerReportedCreatedMembers
    /\ call.list = <<0, 1>>
    /\ Len(groups) = 2
    /\ groups[2].id = 1
    /\ groups[2].size = vars[1].size + vars[2].size
    /\ groups[2].size > 0

----------------------------------------------------------------------------
(* The message codec on its own: command() over a transport whose recv      *)
(* hands back the buffer that was given to send, so that the response is    *)
(* the decoding of the encoded request.                                     *)

\* largest payload length tried besides the short ones
MaxShort == 3

LoopbackCodes == {"CMD_OK", "CMD_VAR_VALUE", "CMD_GROUP", "CMD_CURVE_BLOCK",
                  "CMD_FUNC_RETURN", "CMD_ERR_OP_NOT_SUPPORTED"}

\* payloads are a byte pattern repeated up to a length: every short length,
\* lengths around one length byte, and the longest ones
LoopbackPatterns == {<<0>>, <<255>>, <<1, 2, 3>>}
LoopbackLengths ==
    (0..MaxShort) \cup {255, 256, SLLP_MAX_PAYLOAD - 3, SLLP_MAX_PAYLOAD - 2,
                        SLLP_MAX_PAYLOAD}

\* the payload given to command(): the pattern repeated up to len bytes
LoopbackPayload(pattern, len) == SubSeq(Cycle(pattern, len), 1, len)

\* what recv delivers when it hands back the sent buffer
Loopback(request, g) ==
    [send |-> TRUE, recv |-> TRUE, size |-> SendBuf(request).size,
     code |-> SendBuf(request).code, body |-> SendBuf(request).body, g |-> g]

\* the copy of recv_buf.size bytes into response->payload runs past the
\* array
DecodeOverrun(size) == size > SLLP_MAX_PAYLOAD

\* one exchange over the loopback transport.  When the copy of the response
\* runs past response->payload the behaviour is undefined: command() either
\* carries on, or the process dies.
loopback_command ==
    /\ pc = "idle"
    /\ \E code \in LoopbackCodes, pattern \in LoopbackPatterns,
          len \in LoopbackLengths, g \in Garbage :
         LET request == Request(code, len, LoopbackPayload(pattern, len))
             o == Loopback(request, g)
             r == command(request, o)
             \* the call and its arguments, response being the buffer
             \* command() fills
             c == [op |-> "command", code |-> code, pattern |-> pattern,
                   len |-> len, response |-> NoResponse]
         IN
         \/ /\ call' = [c EXCEPT !.response = r.response]
            /\ ret' = r.err
            /\ wire' = r.events
            /\ last' = o
            /\ out' = NoOut
            /\ pc' = "returned"
            /\ frame' = NoFrame
            /\ UNCHANGED <<initialized, server_version, vars, groups, curves,
                           funcs, stale, scenario>>
         \/ /\ DecodeOverrun(o.size)
            /\ Crashed(c, <<>>, NoExchange)

LoopbackInit == Init /\ scenario = "session"

LoopbackNext ==
    \/ loopback_command
    \/ caller_continues

LoopbackSpec == LoopbackInit /\ [][LoopbackNext]_vars_all

\* C17: a message of any code and any payload of at most SLLP_MAX_PAYLOAD
\* bytes, encoded by command() and decoded by command() from the same
\* bytes, comes back with the same code, payload length and payload bytes.
EncodeDecodeRoundTrip ==
    call.op = "command" =>
        /\ pc = "returned"
        /\ ret = SLLP_SUCCESS
        /\ call.response.code = call.code
        /\ call.response.payload_size = call.len
        /\ SubSeq(call.response.bytes, 1, call.len) =
               LoopbackPayload(call.pattern, call.len)

----------------------------------------------------------------------------
(* Request size *)

\* the payload bytes the request of the current call needs, for the
\* operations whose request grows with a catalog size or a caller's length
RequestPayloadNeeded ==
    CASE call.op = "sllp_send_curve_block" -> SLLP_CURVE_BLOCK_INFO + call.len
      [] call.op = "sllp_write_group"  -> 1 + groups[call.grp + 1].size
      [] call.op = "sllp_bin_op_group" -> 2 + groups[call.grp + 1].size
      [] OTHER -> 0

\* the current call passed every other validation of its operation and
\* needs a request payload larger than the maximum
OversizeRequestCall ==
    /\ pc \in {"returned", "crashed"}
    /\ \/ /\ call.op = "sllp_send_curve_block"
          /\ call.curve \in 0..(Len(curves) - 1)
          /\ call.data
          /\ curves[call.curve + 1].writable
          /\ call.offset <= curves[call.curve + 1].nblocks
          /\ call.len <= curves[call.curve + 1].block_size
       \/ /\ call.op = "sllp_write_group"
          /\ call.grp \in 0..(Len(groups) - 1)
          /\ call.values
          /\ groups[call.grp + 1].writable
       \/ /\ call.op = "sllp_bin_op_group"
          /\ call.grp \in 0..(Len(groups) - 1)
          /\ call.mask
          /\ groups[call.grp + 1].writable
          /\ call.bin_op < BIN_OP_COUNT
    /\ RequestPayloadNeeded > SLLP_MAX_PAYLOAD

\* C18: every request handed to send is at most header + maximum payload
\* bytes long, and an operation whose request payload would be larger than
\* the maximum payload returns SLLP_ERR_PARAM_INVALID without handing
\* anything to the transport.
OversizeRequestRejected ==
    /\ \A i \in 1..Len(wire) :
           IsSend(wire[i]) => wire[i].size <= SLLP_HEADER_SIZE + SLLP_MAX_PAYLOAD
    /\ OversizeRequestCall =>
           pc = "returned" /\ ret = SLLP_ERR_PARAM_INVALID /\ wire = <<>>

----------------------------------------------------------------------------
(* Short received buffers *)

\* the current call made one exchange, whose recv succeeded and delivered
\* fewer bytes than a message header
ReceivedShortOfHeader ==
    /\ pc = "returned"
    /\ call.op \in EntityOps
    /\ Len(wire) = 2
    /\ last.send /\ last.recv
    /\ last.size < SLLP_HEADER_SIZE

\* C19: an exchange whose received buffer is shorter than the message
\* header (1 code byte and 2 length bytes) fails with SLLP_ERR_COMM, so no
\* code and no payload length is taken from such a buffer.
ShortBufferFailsExchange ==
    ReceivedShortOfHeader => ret = SLLP_ERR_COMM

----------------------------------------------------------------------------
(* Half-duplex use of the transport *)

\* the request a send event carried
RequestOf(e) ==
    Request(e.code, e.size - SLLP_HEADER_SIZE,
            SubSeq(e.body, SLLP_HEADER_SIZE, Len(e.body)))

\* C20: the transport calls of an operation alternate: the first is a send,
\* a recv comes only right after a send that succeeded, and a send comes
\* only after the previous exchange has ended, that is right after a recv or
\* right after a failed send of another request (no retry).  The exchange
\* of a failed send yields SLLP_ERR_COMM, and so does the operation when
\* that send is its first transport call.
TransportCallsAlternate ==
    \A i \in 1..Len(wire) :
        /\ i = 1 => IsSend(wire[i])
        /\ ~IsSend(wire[i]) =>
               i > 1 /\ IsSend(wire[i - 1]) /\ wire[i - 1].ok
        /\ IsSend(wire[i]) /\ i > 1 =>
               \/ ~IsSend(wire[i - 1])
               \/ /\ ~wire[i - 1].ok
                  /\ RequestOf(wire[i]) # RequestOf(wire[i - 1])
        /\ IsSend(wire[i]) /\ ~wire[i].ok =>
               /\ command(RequestOf(wire[i]), SendFail).err = SLLP_ERR_COMM
               /\ i = Len(wire) => ~last.send
               /\ i = 1 =>
                      Len(wire) = 1 /\ pc = "returned" /\ ret = SLLP_ERR_COMM

\* a send of sllp_client_init failed and the next exchange followed it
FailedSendThenNextExchange ==
    /\ pc = "returned"
    /\ call.op = "sllp_client_init"
    /\ \E i \in 1..Len(wire) :
           /\ IsSend(wire[i]) /\ ~wire[i].ok
           /\ i + 2 <= Len(wire)
           /\ IsSend(wire[i + 1]) /\ wire[i + 1].ok
           /\ ~IsSend(wire[i + 2])

----------------------------------------------------------------------------
(* Values read *)

\* C21: when sllp_read_var returns SLLP_SUCCESS it has written into the
\* caller's buffer exactly as many bytes as the size of the Variable,
\* whatever payload length the response declares.
ReadVarDeliversVarSize ==
    /\ pc = "returned"
    /\ call.op = "sllp_read_var"
    /\ ret = SLLP_SUCCESS
    => Len(out.buf) = vars[call.var + 1].size

----------------------------------------------------------------------------
(* Refresh after a mutating command *)

\* the operations that change a catalog on the server
MutatingOps ==
    {"sllp_create_group", "sllp_remove_all_groups", "sllp_recalc_checksum"}

\* the refresh an operation triggers, and the code of its list query
RefreshOf(op) ==
    IF op = "sllp_recalc_checksum"
    THEN "update_curves_list" ELSE "update_groups_list"
RefreshQuery(op) ==
    IF op = "sllp_recalc_checksum"
    THEN "CMD_CURVE_QUERY_LIST" ELSE "CMD_GROUP_QUERY_LIST"

\* the exchange with transport outcome o yielded a response with code ok
Acked(o) == ~ExchangeFailed(o) /\ o.code = "CMD_OK"

\* where a mutating operation stands, against the answer to its command
RefreshFollowsAck ==
    call.op \in MutatingOps =>
        /\ Len(Sends) >= 2 => Sends[2].code = RefreshQuery(call.op)
        /\ pc \in {"update_groups_list", "update_curves_list"} =>
               pc = RefreshOf(call.op) /\ Len(wire) = 2 /\ Acked(last)
        /\ pc = "returned" /\ Len(Sends) <= 1 =>
               ~Acked(last) /\ ret # SLLP_SUCCESS

\* the step that makes the command exchange of a mutating operation
MutatingCommandStep ==
    pc = "idle" /\ call'.op \in MutatingOps =>
        IF Acked(last')
        THEN pc' = RefreshOf(call'.op) /\ Len(wire') = 2
        ELSE /\ pc' = "returned"
             /\ Len(wire') <= 2
             /\ UNCHANGED <<vars, groups, curves, funcs>>

\* C22: in sllp_create_group, sllp_remove_all_groups and
\* sllp_recalc_checksum, after a command answered with code ok the next
\* exchange is the list query of the matching refresh (Groups, Groups,
\* Curves); after a command that failed or was answered with another code
\* the operation returns without another exchange and with the catalogs
\* unchanged.
AckedCommandRefreshesNext ==
    []RefreshFollowsAck /\ [][MutatingCommandStep]_vars_all

\* sllp_recalc_checksum was acked and its Curves refresh made its list query
RecalcAckedThenCurvesQueried ==
    /\ pc = "returned"
    /\ call.op = "sllp_recalc_checksum"
    /\ Len(Sends) >= 2
    /\ Sends[1].code = "CMD_CURVE_RECALC_CSUM"
    /\ Sends[2].code = "CMD_CURVE_QUERY_LIST"

\* the sends of the current call that carry `code`
SendsOf(code) == {i \in 1..Len(Sends) : Sends[i].code = code}

\* the command code of a mutating operation
CommandOf(op) ==
    CASE op = "sllp_create_group"      -> "CMD_GROUP_CREATE"
      [] op = "sllp_remove_all_groups" -> "CMD_GROUP_REMOVE_ALL"
      [] op = "sllp_recalc_checksum"   -> "CMD_CURVE_RECALC_CSUM"

\* C23: a mutating operation that went on to its refresh returns
\* SLLP_SUCCESS whatever the refresh did, and has sent its command once and
\* the list query of the refresh once (a failed refresh is not tried again).
RefreshTriedOnceResultIgnored ==
    /\ pc = "returned"
    /\ call.op \in MutatingOps
    /\ Len(Sends) >= 2
    => /\ ret = SLLP_SUCCESS
       /\ Cardinality(SendsOf(CommandOf(call.op))) = 1
       /\ Cardinality(SendsOf(RefreshQuery(call.op))) = 1

\* the list query of the refresh of a mutating operation failed or was
\* answered with an unexpected code, and the operation returned
\* SLLP_SUCCESS
FailedRefreshYetSuccess ==
    /\ pc = "returned"
    /\ call.op \in MutatingOps
    /\ Len(Sends) = 2
    /\ Sends[2].code = RefreshQuery(call.op)
    /\ \/ ExchangeFailed(last)
       \/ last.code = "CMD_ERR_OP_NOT_SUPPORTED"
    /\ ret = SLLP_SUCCESS

----------------------------------------------------------------------------
(* What a refresh leaves alone *)

\* the list query with transport outcome o failed or was answered with a
\* code other than `code`
ListQueryFailed(o, code) == ExchangeFailed(o) \/ o.code # code

\* one step of a refresh: the catalogs and the version it leaves alone, and
\* what a failed list query of Variables, Curves or Functions does
RefreshStep ==
    /\ pc = "update_vars_list" =>
           /\ UNCHANGED <<server_version, groups, curves, funcs>>
           /\ ListQueryFailed(last', "CMD_VAR_LIST") =>
                  /\ vars' = vars
                  /\ pc' = "returned" /\ ret' = SLLP_ERR_COMM
    /\ pc \in {"update_groups_list", "update_groups_list_loop"} =>
           UNCHANGED <<server_version, vars, curves, funcs>>
    /\ pc = "update_curves_list" =>
           /\ UNCHANGED <<server_version, vars, groups, funcs>>
           /\ ListQueryFailed(last', "CMD_CURVE_LIST") =>
                  /\ curves' = curves
                  /\ pc' = "returned"
                  /\ call.op = "sllp_client_init" => ret' = SLLP_ERR_COMM
    /\ pc = "update_curves_list_loop" =>
           UNCHANGED <<server_version, vars, groups, funcs>>
    /\ pc = "update_funcs_list" =>
           /\ UNCHANGED <<server_version, vars, groups, curves>>
           /\ ListQueryFailed(last', "CMD_FUNC_LIST") =>
                  /\ funcs' = funcs
                  /\ pc' = "returned" /\ ret' = SLLP_ERR_COMM

\* C24: a refresh of the Variables, Curves or Functions whose list query
\* fails or is answered with an unexpected code ends with SLLP_ERR_COMM and
\* leaves that catalog as it was; a refresh of one catalog never changes
\* the other three catalogs or the version.
FailedListQueryKeepsCatalog == [][RefreshStep]_vars_all

\* the list query of the Curves refresh of sllp_recalc_checksum failed, and
\* the Curve catalog still holds its entries
CurvesKeptAfterFailedListQuery ==
    /\ pc = "returned"
    /\ call.op = "sllp_recalc_checksum"
    /\ Len(Sends) = 2
    /\ ListQueryFailed(last, "CMD_CURVE_LIST")
    /\ curves # <<>>

----------------------------------------------------------------------------
(* Checksum queries of the Curves refresh *)

IsCsumQuery(e) == IsSend(e) /\ e.code = "CMD_CURVE_QUERY_CSUM"
\* the checksum queries of the current call, in order
CsumQueries == SelectSeq(wire, IsCsumQuery)

\* the checksum query with transport outcome o failed or was answered with
\* another code
CsumQueryFailed(o) == ExchangeFailed(o) \/ o.code # "CMD_CURVE_CSUM"

\* the checksum queries made so far are those of Curves 0, 1, ... in order,
\* none left out, and the catalog holds every Curve of the list response
CsumQueriesInOrder ==
    /\ \A k \in 1..Len(CsumQueries) :
           CsumQueries[k].size = SLLP_HEADER_SIZE + 1
           /\ CsumQueries[k].body[3] = k - 1
    /\ pc = "update_curves_list_loop" =>
           /\ Len(CsumQueries) = frame.i
           /\ frame.i < Len(curves)
           /\ Len(curves) = frame.list.payload_size \div SLLP_CURVE_LIST_INFO
    /\ pc \in {"returned", "update_funcs_list"} /\ Len(CsumQueries) > 0 =>
           Len(CsumQueries) = Len(curves)

\* one iteration of the loop of the Curves refresh
CsumQueryStep ==
    pc = "update_curves_list_loop" =>
        /\ Len(curves') = Len(curves)
        /\ \A j \in 1..Len(curves) : j # frame.i + 1 => curves'[j] = curves[j]
        /\ curves'[frame.i + 1].id = frame.i
        /\ curves'[frame.i + 1].checksum =
               IF CsumQueryFailed(last')
               THEN ZeroCsum
               ELSE DecodeCsum(Response(last'))
        /\ IF frame.i + 1 < Len(curves)
           THEN pc' = "update_curves_list_loop" /\ frame'.i = frame.i + 1
           ELSE IF call.op = "sllp_client_init"
           THEN pc' = "update_funcs_list"
           ELSE pc' = "returned" /\ ret' = SLLP_SUCCESS

\* C25: in a Curves refresh a checksum query that fails or is answered with
\* another code leaves the checksum of that Curve all zero and does not end
\* the refresh: the checksum queries of the later Curves are made in index
\* order and the refresh ends with success, every Curve of the list response
\* being in the catalog.
FailedCsumQueryIsNotFatal ==
    []CsumQueriesInOrder /\ [][CsumQueryStep]_vars_all

\* the checksum query of Curve 0 could not be sent, the one of Curve 1 was
\* answered, and the refresh ended with both Curves in the catalog
CsumOfFirstCurveFailedSecondFetched ==
    /\ pc = "returned"
    /\ call.op = "sllp_recalc_checksum"
    /\ ret = SLLP_SUCCESS
    /\ Len(CsumQueries) = 2
    /\ ~CsumQueries[1].ok
    /\ CsumQueries[2].ok
    /\ Len(curves) = 2
    /\ curves[1].checksum = ZeroCsum
    /\ curves[2].checksum # ZeroCsum

----------------------------------------------------------------------------
(* The Variable catalog after a refresh *)

\* a Variables refresh has just succeeded (`last` is its list exchange)
VarsJustRefreshed ==
    pc = "update_groups_list" /\ call.op = "sllp_client_init"

\* C26: after a successful Variables refresh the catalog holds one entry
\* per payload byte of the list response and nothing else: as many entries
\* as the payload length, entry i with id i, writable = the high bit of
\* byte i and size = its low seven bits, or SLLP_VAR_MAX_SIZE when these
\* are zero (for every byte received).  Bytes 0x84, 0x01 give the two
\* entries (writable, size 4) and (read-only, size 1).
VarsCatalogIsTheListDecoded ==
    VarsJustRefreshed =>
        /\ Len(vars) = Response(last).payload_size
        /\ \A i \in 1..Len(vars) :
               /\ vars[i].id = i - 1
               /\ 2 + i <= Len(last.body) =>
                      /\ vars[i].writable = (last.body[2 + i] >= 128)
                      /\ vars[i].size =
                             IF last.body[2 + i] % 128 = 0
                             THEN SLLP_VAR_MAX_SIZE
                             ELSE last.body[2 + i] % 128
        /\ last.body = <<0, 2, 132, 1>> =>
               vars = <<[id |-> 0, writable |-> TRUE, size |-> 4],
                        [id |-> 1, writable |-> FALSE, size |-> 1]>>

\* the list response 0x84, 0x01 has just been decoded into two entries
TwoVarsListed ==
    /\ VarsJustRefreshed
    /\ last.body = <<0, 2, 132, 1>>
    /\ Len(vars) = 2
    /\ vars[1].writable /\ vars[1].size = 4
    /\ ~vars[2].writable /\ vars[2].size = 1

----------------------------------------------------------------------------
(* The length of a Curve block read *)

\* C27: when sllp_request_curve_block returns SLLP_SUCCESS the length it
\* reports is the payload length of the response less the block-info
\* prefix, as integers (no more than the payload length when the payload is
\* shorter than the prefix), and is at most the block_size of the Curve.
BlockLengthWithinBlockSize ==
    RequestBlockCall /\ ret = SLLP_SUCCESS =>
        LET size == Response(last).payload_size IN
        /\ out.len_written
        /\ size >= SLLP_CURVE_BLOCK_INFO =>
               out.len = size - SLLP_CURVE_BLOCK_INFO
        /\ out.len <= size
        /\ out.len <= curves[call.curve + 1].block_size

----------------------------------------------------------------------------
(* Identifiers and catalog positions *)

\* the entries 1..n of a catalog carry the ids 0..n-1
IdsAreIndexes(list, n) == \A i \in 1..n : list[i].id = i - 1

============================================================================
